---- MODULE Spec2Model ----
(***************************************************************************)
(* A model of the spreadsheet engine of spreadsheet-mobile: SheetParser    *)
(* and DataManager (src/unnamed/part_002), FormulaEngine (src/README.md)   *)
(* and the save path of SheetView (src/src/sheetView.ts).                  *)
(*                                                                         *)
(* Texts are sequences of one-character strings, so that trimming,         *)
(* number parsing, number printing and formula parsing are computed the    *)
(* way the code computes them.  A JavaScript value that is a number or a   *)
(* string is a record [num |-> n] or [str |-> chars].  A SheetCellValue is *)
(* a record with the fields the object has (v, m, f, calculated); the      *)
(* order of an object's keys and the fields ct and s are not modelled.     *)
(* The value null is the record Null.                                      *)
(***************************************************************************)
EXTENDS Integers, Sequences, FiniteSets, TLC

(***************************************************************************)
(* Bounds of the model.                                                    *)
(***************************************************************************)
\* number of columns of row 1 that edits address: A1, B1, C1
NumCols == 3
\* number of API calls in one run of the editing specification
MaxOps == 4
\* maxUndoSteps handed to the constructor
MaxUndoSteps == 2
\* the clock stops here (ticks of 1000 ms)
MaxTime == 4
\* number of calls the host makes in one run of the scheduler specification
MaxCalls == 3
\* the larger of the two maxRetries the scheduler specification is configured with
WideMaxRetries == 6
\* intervalMs handed to the constructor, in ticks of 1000 ms
IntervalTicks == 3

(***************************************************************************)
(* Program constants.                                                      *)
(***************************************************************************)
\* debounceMs of the default configuration, in ticks of 1000 ms
DebounceTicks == 2
\* maxRetries of the default configuration
DefaultMaxRetries == 3
\* the cap of the retry delay, in ms
MaxRetryDelayMs == 10000
\* the base of the retry delay, in ms
BaseRetryDelayMs == 1000
\* one tick of the clock, in ms
TickMs == 1000

(***************************************************************************)
(* Characters, numbers and strings.                                        *)
(***************************************************************************)
DigitChars == <<"0", "1", "2", "3", "4", "5", "6", "7", "8", "9">>

UpperChars == <<"A", "B", "C", "D", "E", "F", "G", "H", "I", "J", "K", "L", "M",
                "N", "O", "P", "Q", "R", "S", "T", "U", "V", "W", "X", "Y", "Z">>

IndexOf(seq, c) == IF \E i \in DOMAIN seq : seq[i] = c
                   THEN CHOOSE i \in DOMAIN seq : seq[i] = c
                   ELSE 0

IsDigit(c) == IndexOf(DigitChars, c) # 0

IsUpper(c) == IndexOf(UpperChars, c) # 0

DigitVal(c) == IndexOf(DigitChars, c) - 1

Num(n) == [num |-> n]

Str(s) == [str |-> s]

IsNum(x) == DOMAIN x = {"num"}

IsStr(x) == DOMAIN x = {"str"}

Null == [null |-> TRUE]

\* Op at the value v: a value computed once and named in what follows
Let(v, Op(_)) == Op(v)

\* String.prototype.trim over the blank character
RECURSIVE TrimLeft(_)
TrimLeft(s) == IF s # <<>> /\ Head(s) = " " THEN TrimLeft(Tail(s)) ELSE s

RECURSIVE TrimRight(_)
TrimRight(s) == IF s # <<>> /\ s[Len(s)] = " "
                THEN TrimRight(SubSeq(s, 1, Len(s) - 1))
                ELSE s

Trim(s) == TrimRight(TrimLeft(s))

AllDigits(s) == s # <<>> /\ \A i \in DOMAIN s : IsDigit(s[i])

RECURSIVE DigitsToNat(_)
DigitsToNat(s) == IF s = <<>> THEN 0
                  ELSE 10 * DigitsToNat(SubSeq(s, 1, Len(s) - 1)) + DigitVal(s[Len(s)])

\* the texts Number() and parseFloat() read as a whole as an integer
IsIntText(s) == \/ AllDigits(s)
                \/ Len(s) > 1 /\ Head(s) = "-" /\ AllDigits(Tail(s))

IntOfText(s) == IF Head(s) = "-" THEN 0 - DigitsToNat(Tail(s)) ELSE DigitsToNat(s)

RECURSIVE NatToStr(_)
NatToStr(n) == IF n < 10 THEN <<DigitChars[n + 1]>>
               ELSE NatToStr(n \div 10) \o <<DigitChars[(n % 10) + 1]>>

\* String(x) of a number or a string
JsString(x) == IF IsNum(x)
               THEN IF x.num < 0 THEN <<"-">> \o NatToStr(0 - x.num) ELSE NatToStr(x.num)
               ELSE x.str

\* the longest prefix of decimal digits (after an optional sign) parseFloat reads
RECURSIVE DigitPrefix(_)
DigitPrefix(s) == IF s # <<>> /\ IsDigit(Head(s)) THEN <<Head(s)>> \o DigitPrefix(Tail(s))
                  ELSE <<>>

NumPrefix(s) == IF s # <<>> /\ Head(s) = "-" /\ DigitPrefix(Tail(s)) # <<>>
                THEN <<"-">> \o DigitPrefix(Tail(s))
                ELSE DigitPrefix(s)

\* parseFloat(s): [nan, num], num the integer it reads when nan is false
parseFloat(s) ==
    Let(NumPrefix(TrimLeft(s)),
        LAMBDA p : [nan |-> p = <<>>, num |-> IF p = <<>> THEN 0 ELSE IntOfText(p)])

(***************************************************************************)
(* Maps (a JavaScript Map, or the celldata array read by position): a      *)
(* function whose domain is the set of keys present.                       *)
(***************************************************************************)
EmptyMap == <<>>

MapSet(m, k, x) == [y \in (DOMAIN m) \cup {k} |-> IF y = k THEN x ELSE m[y]]

MapDel(m, k) == [y \in (DOMAIN m) \ {k} |-> m[y]]

MapGet(m, k) == IF k \in DOMAIN m THEN m[k] ELSE Null

(***************************************************************************)
(* SheetParser                                                             *)
(***************************************************************************)
\* SheetParser.getCellKey: the key "row,col" is the pair <<row, col>>
getCellKey(row, col) == <<row, col>>

\* SheetParser.getCellAt: the value object of the cell at a position, or Null
getCellAt(celldata, key) == MapGet(celldata, key)

\* SheetParser.getCellValue: the display text of a value object
getCellValue(cellValue) ==
    IF cellValue = Null THEN <<>>
    ELSE IF "m" \in DOMAIN cellValue /\ cellValue.m # <<>> THEN cellValue.m
    ELSE IF "v" \in DOMAIN cellValue THEN JsString(cellValue.v)
    ELSE <<>>

\* SheetParser.getSheetDimensions
getSheetDimensions(celldata) ==
    LET rowsSeen == {k[1] : k \in DOMAIN celldata} \cup {0}
        colsSeen == {k[2] : k \in DOMAIN celldata} \cup {0}
    IN  [rows |-> 1 + (CHOOSE maxRow \in rowsSeen : \A r \in rowsSeen : r <= maxRow),
         cols |-> 1 + (CHOOSE maxCol \in colsSeen : \A c \in colsSeen : c <= maxCol)]

\* the loop for (let i = from; i < to; i++) if (i is in kept) list.push(i)
RECURSIVE PushKept(_, _, _)
PushKept(from, to, kept) ==
    IF from >= to THEN <<>>
    ELSE (IF from \in kept THEN <<from>> ELSE <<>>) \o PushKept(from + 1, to, kept)

\* SheetParser.createGrid: cell !== null && this.getCellValue(cell).trim() !== ''
HasContent(cell) == cell # Null /\ Trim(getCellValue(cell)) # <<>>

\* a faulty createGrid, which keeps every row and column of the full grid
createGridUncompacted(celldata) ==
    LET dims     == getSheetDimensions(celldata)
        fullGrid == [r \in 0..(dims.rows - 1) |->
                       [c \in 0..(dims.cols - 1) |-> getCellAt(celldata, getCellKey(r, c))]]
        nonEmptyRows == PushKept(0, dims.rows, 0..(dims.rows - 1))
        nonEmptyCols == PushKept(0, dims.cols, 0..(dims.cols - 1))
    IN  [grid   |-> [r \in 1..Len(nonEmptyRows) |->
                       [c \in 1..Len(nonEmptyCols) |->
                           fullGrid[nonEmptyRows[r]][nonEmptyCols[c]]]],
         rowMap |-> nonEmptyRows,
         colMap |-> nonEmptyCols]

\* SheetParser.createGrid
createGrid(celldata) ==
    LET dims     == getSheetDimensions(celldata)
        fullGrid == [r \in 0..(dims.rows - 1) |->
                       [c \in 0..(dims.cols - 1) |-> getCellAt(celldata, getCellKey(r, c))]]
        nonEmptyRows ==
            PushKept(0, dims.rows,
                     {r \in 0..(dims.rows - 1) :
                         \E c \in 0..(dims.cols - 1) : HasContent(fullGrid[r][c])})
        nonEmptyCols ==
            PushKept(0, dims.cols,
                     {c \in 0..(dims.cols - 1) :
                         \E r \in 0..(dims.rows - 1) : HasContent(fullGrid[r][c])})
    IN  [grid   |-> [r \in 1..Len(nonEmptyRows) |->
                       [c \in 1..Len(nonEmptyCols) |->
                           fullGrid[nonEmptyRows[r]][nonEmptyCols[c]]]],
         rowMap |-> nonEmptyRows,
         colMap |-> nonEmptyCols]

\* SheetParser.parseValue
parseValue(value) ==
    LET trimmed == Trim(value)
    IN  IF trimmed = <<>> THEN Str(<<>>)
        ELSE IF IsIntText(trimmed) THEN Num(IntOfText(trimmed))
        ELSE Str(trimmed)

\* SheetParser.updateCellValue
updateCellValue(celldata, key, value) ==
    IF Trim(value) = <<>>
    THEN MapDel(celldata, key)
    ELSE MapSet(celldata, key, [v |-> parseValue(value), m |-> value])

\* the comparison JSON.stringify(a) !== JSON.stringify(b) of two value objects
JsonDiffers(a, b) == a # b

\* SheetParser.createCellState
createCellState(originalValue, currentValue) ==
    [originalValue |-> originalValue,
     currentValue  |-> currentValue,
     isModified    |-> JsonDiffers(originalValue, currentValue),
     isValid       |-> TRUE,
     validationError |-> Null]

\* Array.prototype.join of texts
RECURSIVE Join(_, _)
Join(texts, separator) ==
    IF texts = <<>> THEN <<>>
    ELSE IF Len(texts) = 1 THEN Head(texts)
    ELSE Head(texts) \o separator \o Join(Tail(texts), separator)

\* SheetParser.validateCell, one rule: required, number (Number(value) is a number
\* for a blank text and for an integer text) or text
RuleHolds(rule, value) ==
    CASE rule.type = "required" -> Len(Trim(value)) > 0
      [] rule.type = "number"   -> Trim(value) = <<>> \/ IsIntText(Trim(value))
      [] OTHER                  -> TRUE

\* SheetParser.validateCell, the messages of the rules that fail, in their order
RECURSIVE FailedMessages(_, _)
FailedMessages(value, rules) ==
    IF rules = <<>> THEN <<>>
    ELSE (IF RuleHolds(Head(rules), value) THEN <<>> ELSE <<Head(rules).message>>)
            \o FailedMessages(value, Tail(rules))

\* SheetParser.validateCell: [isValid, errors]
validateCell(value, rules) ==
    [isValid |-> FailedMessages(value, rules) = <<>>, errors |-> FailedMessages(value, rules)]

(***************************************************************************)
(* FormulaEngine                                                           *)
(***************************************************************************)
\* FormulaEngine.columnToIndex
RECURSIVE ColumnAcc(_)
ColumnAcc(col) == IF col = <<>> THEN 0
                  ELSE ColumnAcc(SubSeq(col, 1, Len(col) - 1)) * 26
                       + IndexOf(UpperChars, col[Len(col)])

columnToIndex(col) == ColumnAcc(col) - 1

\* a faulty indexToColumn, which writes the index in plain base 26
RECURSIVE IndexToColumnPlain(_, _)
IndexToColumnPlain(index, result) ==
    IF index > 0
    THEN IndexToColumnPlain(index \div 26, <<UpperChars[(index % 26) + 1]>> \o result)
    ELSE result

indexToColumnPlain(index) ==
    IF index = 0 THEN <<"A">> ELSE IndexToColumnPlain(index, <<>>)

\* FormulaEngine.indexToColumn, the while loop
RECURSIVE IndexToColumnLoop(_, _)
IndexToColumnLoop(index, result) ==
    IF index > 0
    THEN IndexToColumnLoop((index - 1) \div 26,
                           <<UpperChars[((index - 1) % 26) + 1]>> \o result)
    ELSE result

\* FormulaEngine.indexToColumn
indexToColumn(index) == IndexToColumnLoop(index + 1, <<>>)

\* the number of leading capital letters of a text
RECURSIVE UpperRun(_)
UpperRun(s) == IF s # <<>> /\ IsUpper(Head(s)) THEN 1 + UpperRun(Tail(s)) ELSE 0

\* the number of leading digits of a text
RECURSIVE DigitRun(_)
DigitRun(s) == IF s # <<>> /\ IsDigit(Head(s)) THEN 1 + DigitRun(Tail(s)) ELSE 0

\* the regular expression ^([A-Z]+)([0-9]+)$
IsCellRefText(s) ==
    LET u == UpperRun(s)
    IN  /\ u > 0
        /\ u < Len(s)
        /\ AllDigits(SubSeq(s, u + 1, Len(s)))

\* FormulaEngine.parseCellReference (of a text that matches): <<row, col>>
parseCellReference(ref) ==
    LET u == UpperRun(ref)
    IN  <<DigitsToNat(SubSeq(ref, u + 1, Len(ref))) - 1,
          columnToIndex(SubSeq(ref, 1, u))>>

\* FormulaEngine.toNumber
toNumber(value) ==
    IF IsNum(value) THEN value.num
    ELSE Let(parseFloat(value.str), LAMBDA num : IF num.nan THEN 0 ELSE num.num)

\* DataManager.createFormulaContext, getCellValue: what a formula reads at a reference
ContextGetCellValue(celldata, ref) ==
    LET cell == getCellAt(celldata, ref)
    IN  IF cell = Null THEN Str(<<>>)
        ELSE IF "f" \in DOMAIN cell /\ cell.f # <<>> THEN cell.v
        ELSE Str(getCellValue(cell))

\* FormulaEngine.evaluateArithmetic, the replace of /([A-Z]+[0-9]+)/g: the text with
\* every reference replaced by String(toNumber(value)), and the references met
RECURSIVE ReplaceRefs(_, _)
ReplaceRefs(expr, celldata) ==
    IF expr = <<>> THEN [text |-> <<>>, deps |-> <<>>]
    ELSE LET u == UpperRun(expr)
             d == DigitRun(SubSeq(expr, u + 1, Len(expr)))
         IN  IF u > 0 /\ d > 0
             THEN LET ref  == parseCellReference(SubSeq(expr, 1, u + d))
                      rest == ReplaceRefs(SubSeq(expr, u + d + 1, Len(expr)), celldata)
                  IN  [text |-> JsString(Num(toNumber(ContextGetCellValue(celldata, ref))))
                                \o rest.text,
                       deps |-> <<ref>> \o rest.deps]
             ELSE LET skip == IF u > 0 THEN u ELSE 1
                      rest == ReplaceRefs(SubSeq(expr, skip + 1, Len(expr)), celldata)
                  IN  [text |-> SubSeq(expr, 1, skip) \o rest.text, deps |-> rest.deps]

\* String.prototype.indexOf(c, from), positions counted from 1, 0 when absent
IndexOfFrom(s, c, from) ==
    IF \E i \in from..Len(s) : s[i] = c
    THEN CHOOSE i \in from..Len(s) : s[i] = c /\ \A j \in from..(i - 1) : s[j] # c
    ELSE 0

LastIndexOf(s, c) ==
    IF \E i \in DOMAIN s : s[i] = c
    THEN CHOOSE i \in DOMAIN s : s[i] = c /\ \A j \in (i + 1)..Len(s) : s[j] # c
    ELSE 0

IsNumChar(c) == IsDigit(c) \/ c = "."

\* the text of a number the evaluator computed; NaN prints as "NaN"
NaNText == <<"N", "a", "N">>

\* FormulaEngine.processOperations, the two scans that find the operands of the
\* operator at position i
OperandBounds(expr, i) ==
    Let(IF i + 1 <= Len(expr) /\ expr[i + 1] = "-" THEN i + 2 ELSE i + 1,
        LAMBDA from :
          [leftStart |-> CHOOSE ls \in 1..i :
                            /\ \A j \in ls..(i - 1) : IsNumChar(expr[j])
                            /\ (ls = 1 \/ ~IsNumChar(expr[ls - 1])),
           rightEnd  |-> CHOOSE re \in (from - 1)..Len(expr) :
                            /\ \A j \in from..re : IsNumChar(expr[j])
                            /\ (re = Len(expr) \/ ~IsNumChar(expr[re + 1]))])

\* FormulaEngine.processOperations, the switch: the text of the result.  A quotient
\* is modelled where it is exact.
Calculate(op, left, right) ==
    IF left.nan \/ right.nan THEN NaNText
    ELSE JsString(Num(CASE op = "+" -> left.num + right.num
                        [] op = "-" -> left.num - right.num
                        [] op = "*" -> left.num * right.num
                        [] OTHER    -> left.num \div right.num))

\* FormulaEngine.processOperations, the while loop of one operator, from position
\* index on: [ok, text], ok false when the loop throws (division by zero)
RECURSIVE ProcessOperator(_, _, _)
ProcessOperator(expr, op, index) ==
    Let(IndexOfFrom(expr, op, index), LAMBDA i :
      IF i = 0 THEN [ok |-> TRUE, text |-> expr]
      ELSE IF op = "-" /\ (i = 1 \/ expr[i - 1] \in {"+", "-", "*", "/", "("})
      THEN ProcessOperator(expr, op, i + 1)
      ELSE Let(OperandBounds(expr, i), LAMBDA b :
           Let(parseFloat(SubSeq(expr, b.leftStart, i - 1)), LAMBDA left :
           Let(parseFloat(SubSeq(expr, i + 1, b.rightEnd)), LAMBDA right :
             IF op = "/" /\ ~right.nan /\ right.num = 0
             THEN [ok |-> FALSE, text |-> expr]
             ELSE Let(Calculate(op, left, right), LAMBDA result :
                    ProcessOperator(SubSeq(expr, 1, b.leftStart - 1) \o result
                                      \o SubSeq(expr, b.rightEnd + 1, Len(expr)),
                                    op, b.leftStart + Len(result)))))))

\* FormulaEngine.processOperations: the operators of one tier, one after the other
processOperations(expr, operators) ==
    Let(ProcessOperator(expr, operators[1], 1), LAMBDA first :
        IF ~first.ok THEN first ELSE ProcessOperator(first.text, operators[2], 1))

\* expr.replace(/\s/g, '')
RECURSIVE StripBlanks(_)
StripBlanks(s) == IF s = <<>> THEN <<>>
                  ELSE IF Head(s) = " " THEN StripBlanks(Tail(s))
                  ELSE <<Head(s)>> \o StripBlanks(Tail(s))

\* FormulaEngine.safeEvaluateArithmetic, what follows the loop over the parentheses:
\* [ok, num], ok false when it throws
EvaluateTiers(expr) ==
    Let(processOperations(expr, <<"*", "/">>), LAMBDA mul :
      IF ~mul.ok THEN [ok |-> FALSE, num |-> 0]
      ELSE Let(processOperations(mul.text, <<"+", "-">>), LAMBDA add :
           IF ~add.ok THEN [ok |-> FALSE, num |-> 0]
           ELSE Let(parseFloat(add.text), LAMBDA result :
                  [ok |-> ~result.nan, num |-> result.num])))

\* FormulaEngine.safeEvaluateArithmetic: [ok, num], ok false when it throws
RECURSIVE safeEvaluateArithmetic(_)
safeEvaluateArithmetic(expr0) ==
    Let(StripBlanks(expr0), LAMBDA expr :
    Let(LastIndexOf(expr, "("), LAMBDA start :
      IF start = 0 THEN EvaluateTiers(expr)
      ELSE Let(IndexOfFrom(expr, ")", start), LAMBDA end :
           IF end = 0 THEN [ok |-> FALSE, num |-> 0]
           ELSE Let(safeEvaluateArithmetic(SubSeq(expr, start + 1, end - 1)), LAMBDA inner :
                IF ~inner.ok THEN inner
                ELSE safeEvaluateArithmetic(
                         SubSeq(expr, 1, start - 1) \o JsString(Num(inner.num))
                           \o SubSeq(expr, end + 1, Len(expr)))))))

\* FormulaEngine.evaluateArithmetic: [ok, value, deps]
evaluateArithmetic(expr, celldata) ==
    Let(ReplaceRefs(expr, celldata), LAMBDA replaced :
    Let(safeEvaluateArithmetic(replaced.text), LAMBDA res :
        [ok |-> res.ok, value |-> Num(res.num), deps |-> replaced.deps]))

\* the number of leading characters of a text that are capital letters or "_"
RECURSIVE NameRun(_)
NameRun(s) == IF s # <<>> /\ (IsUpper(Head(s)) \/ Head(s) = "_") THEN 1 + NameRun(Tail(s)) ELSE 0

\* the regular expression ^([A-Z_]+)\((.*)\)$
IsFunctionCallText(s) ==
    Let(NameRun(s), LAMBDA n :
        /\ n > 0
        /\ Len(s) >= n + 2
        /\ s[n + 1] = "("
        /\ s[Len(s)] = ")")

\* FormulaEngine.parseArguments, the loop over the characters of argsStr from position
\* i on: the texts it hands to evaluateExpression, in order.  stringChar is <<>> outside
\* a string.
RECURSIVE ScanArguments(_, _, _, _, _, _)
ScanArguments(argsStr, i, current, depth, stringChar, pieces) ==
    IF i > Len(argsStr)
    THEN IF Trim(current) # <<>> THEN Append(pieces, Trim(current)) ELSE pieces
    ELSE Let(argsStr[i], LAMBDA char :
         Let(stringChar # <<>>, LAMBDA inString :
           IF ~inString /\ char \in {"\"", "'"}
           THEN ScanArguments(argsStr, i + 1, Append(current, char), depth, <<char>>, pieces)
           ELSE IF inString /\ <<char>> = stringChar
           THEN ScanArguments(argsStr, i + 1, Append(current, char), depth, <<>>, pieces)
           ELSE IF ~inString /\ char = "("
           THEN ScanArguments(argsStr, i + 1, Append(current, char), depth + 1, stringChar, pieces)
           ELSE IF ~inString /\ char = ")"
           THEN ScanArguments(argsStr, i + 1, Append(current, char), depth - 1, stringChar, pieces)
           ELSE IF ~inString /\ char = "," /\ depth = 0
           THEN ScanArguments(argsStr, i + 1, <<>>, depth, stringChar,
                              Append(pieces, Trim(current)))
           ELSE ScanArguments(argsStr, i + 1, Append(current, char), depth, stringChar, pieces)))

\* FormulaEngine.sum of arguments that are numbers or strings
RECURSIVE sum(_)
sum(args) == IF args = <<>> THEN 0 ELSE toNumber(Head(args)) + sum(Tail(args))

\* FormulaEngine.count of arguments that are numbers or strings
RECURSIVE count(_)
count(args) == IF args = <<>> THEN 0
               ELSE (IF Head(args) # Str(<<>>) THEN 1 ELSE 0) + count(Tail(args))

\* FormulaEngine.FUNCTIONS: the functions of the table that this model holds
FUNCTIONS == {<<"S", "U", "M">>, <<"C", "O", "U", "N", "T">>}

\* func.apply(null, args) of a function of FUNCTIONS
Apply(funcName, args) ==
    IF funcName = <<"S", "U", "M">> THEN Num(sum(args)) ELSE Num(count(args))

RECURSIVE evaluateExpression(_, _)

\* FormulaEngine.parseArguments, the calls of evaluateExpression on the texts of the
\* arguments: [ok, args, deps], ok false and deps those pushed so far when one throws
RECURSIVE EvaluateArguments(_, _, _, _)
EvaluateArguments(pieces, celldata, args, deps) ==
    IF pieces = <<>> THEN [ok |-> TRUE, args |-> args, deps |-> deps]
    ELSE Let(evaluateExpression(Head(pieces), celldata), LAMBDA res :
           IF ~res.ok THEN [ok |-> FALSE, args |-> args, deps |-> deps \o res.deps]
           ELSE EvaluateArguments(Tail(pieces), celldata,
                                  Append(args, res.value), deps \o res.deps))

parseArguments(argsStr, celldata) ==
    EvaluateArguments(ScanArguments(argsStr, 1, <<>>, 0, <<>>, <<>>), celldata, <<>>, <<>>)

\* FormulaEngine.evaluateExpression: [ok, value, deps], ok false when it throws, deps
\* the references pushed to dependencies when it returns or throws
evaluateExpression(expr0, celldata) ==
    Let(Trim(expr0), LAMBDA expr :
      IF IsCellRefText(expr)
      THEN Let(parseCellReference(expr), LAMBDA ref :
             [ok |-> TRUE, value |-> ContextGetCellValue(celldata, ref), deps |-> <<ref>>])
      ELSE IF IsIntText(expr)
      THEN [ok |-> TRUE, value |-> Num(IntOfText(expr)), deps |-> <<>>]
      ELSE IF expr # <<>> /\ Head(expr) = "\"" /\ expr[Len(expr)] = "\""
      THEN [ok |-> TRUE, value |-> Str(SubSeq(expr, 2, Len(expr) - 1)), deps |-> <<>>]
      ELSE IF IsFunctionCallText(expr)
      THEN Let(SubSeq(expr, 1, NameRun(expr)), LAMBDA funcName :
             IF funcName \notin FUNCTIONS
             THEN [ok |-> FALSE, value |-> Num(0), deps |-> <<>>]
             ELSE Let(parseArguments(SubSeq(expr, NameRun(expr) + 2, Len(expr) - 1), celldata),
                      LAMBDA parsed :
                    [ok    |-> parsed.ok,
                     value |-> IF parsed.ok THEN Apply(funcName, parsed.args) ELSE Num(0),
                     deps  |-> parsed.deps]))
      ELSE evaluateArithmetic(expr, celldata))

ErrorText == <<"#", "E", "R", "R", "O", "R", "!">>

\* FormulaEngine.parseFormula: [value, dependencies, error]
parseFormula(formula, celldata) ==
    IF formula = <<>> \/ Head(formula) # "="
    THEN [value |-> Str(formula), dependencies |-> <<>>, error |-> FALSE]
    ELSE Let(evaluateExpression(Tail(formula), celldata), LAMBDA res :
           IF res.ok
           THEN [value |-> res.value, dependencies |-> res.deps, error |-> FALSE]
           ELSE [value |-> Str(ErrorText), dependencies |-> <<>>, error |-> TRUE])

(***************************************************************************)
(* DataManager: the operations on the sheet, as functions of the data they *)
(* read and write.  An engine record e holds celldata, formulas,           *)
(* cellStates, undoStack, redoStack and isDirty of one DataManager with    *)
(* one sheet.  An entry of formulas is [formula, dependencies,             *)
(* dependents]; an undo action is [key, oldValue, newValue].               *)
(***************************************************************************)
SeqContains(seq, x) == \E i \in DOMAIN seq : seq[i] = x

RECURSIVE SeqWithout(_, _)
SeqWithout(seq, x) == IF seq = <<>> THEN <<>>
                      ELSE IF Head(seq) = x THEN SeqWithout(Tail(seq), x)
                      ELSE <<Head(seq)>> \o SeqWithout(Tail(seq), x)

\* DataManager.updateFormulaDependencies: the loop over the dependencies deps of key
RECURSIVE AddDependent(_, _, _)
AddDependent(formulas, key, deps) ==
    IF deps = <<>> THEN formulas
    ELSE LET depKey == Head(deps)
         IN  IF depKey \in DOMAIN formulas /\ ~SeqContains(formulas[depKey].dependents, key)
             THEN AddDependent(
                      [formulas EXCEPT ![depKey].dependents = Append(@, key)],
                      key, Tail(deps))
             ELSE AddDependent(formulas, key, Tail(deps))

updateFormulaDependencies(formulas, key) ==
    AddDependent(formulas, key, formulas[key].dependencies)

\* DataManager.removeFormulaDependencies: the loop over the dependencies deps of key
RECURSIVE DropDependent(_, _, _)
DropDependent(formulas, key, deps) ==
    IF deps = <<>> THEN formulas
    ELSE LET depKey == Head(deps)
         IN  IF depKey \in DOMAIN formulas
             THEN DropDependent(
                      [formulas EXCEPT ![depKey].dependents = SeqWithout(@, key)],
                      key, Tail(deps))
             ELSE DropDependent(formulas, key, Tail(deps))

removeFormulaDependencies(formulas, key) ==
    IF key \notin DOMAIN formulas THEN formulas
    ELSE DropDependent(formulas, key, formulas[key].dependencies)

\* DataManager.updateFormulaCell: [celldata, formulas]
updateFormulaCell(celldata, formulas, key, formula) ==
    Let(IF key \in DOMAIN formulas
        THEN removeFormulaDependencies(formulas, key)
        ELSE formulas, LAMBDA removed :
    Let(parseFormula(formula, celldata), LAMBDA result :
    Let(updateCellValue(celldata, key, JsString(result.value)), LAMBDA written :
    Let(getCellAt(written, key), LAMBDA cell :
    Let(MapSet(removed, key,
               [formula      |-> formula,
                dependencies |-> result.dependencies,
                dependents   |-> <<>>]), LAMBDA stored :
        [celldata |-> IF cell = Null THEN written
                      ELSE MapSet(written, key,
                                  [v |-> result.value, m |-> cell.m,
                                   f |-> formula, calculated |-> TRUE]),
         formulas |-> updateFormulaDependencies(stored, key)])))))

\* DataManager.updateRegularCell: [celldata, formulas]
updateRegularCell(celldata, formulas, key, value) ==
    [celldata |-> updateCellValue(celldata, key, value),
     formulas |-> IF key \in DOMAIN formulas
                  THEN MapDel(removeFormulaDependencies(formulas, key), key)
                  ELSE formulas]

\* DataManager.recalculateDependents, the while loop: the celldata after it
RECURSIVE RecalculateQueue(_, _, _, _)
RecalculateQueue(celldata, formulas, toRecalculate, calculated) ==
    IF toRecalculate = <<>> THEN celldata
    ELSE LET depKey == Head(toRecalculate)
             rest   == Tail(toRecalculate)
         IN  IF depKey \in calculated
             THEN RecalculateQueue(celldata, formulas, rest, calculated)
             ELSE IF depKey \notin DOMAIN formulas
             THEN RecalculateQueue(celldata, formulas, rest, calculated)
             ELSE Let(parseFormula(formulas[depKey].formula, celldata), LAMBDA result :
                  Let(getCellAt(celldata, depKey), LAMBDA cell :
                      RecalculateQueue(
                          IF cell = Null THEN celldata
                          ELSE MapSet(celldata, depKey,
                                      [y \in (DOMAIN cell) \cup {"v"} |->
                                          IF y = "v" THEN result.value ELSE cell[y]]),
                          formulas,
                          rest \o formulas[depKey].dependents,
                          calculated \cup {depKey})))

\* a faulty loop, which evaluates a key again when it is dequeued again
RECURSIVE RecalculateOrderAgain(_, _, _)
RecalculateOrderAgain(formulas, toRecalculate, calculated) ==
    IF toRecalculate = <<>> THEN <<>>
    ELSE LET depKey == Head(toRecalculate)
             rest   == Tail(toRecalculate)
         IN  IF depKey \notin DOMAIN formulas
             THEN RecalculateOrderAgain(formulas, rest, calculated)
             ELSE <<depKey>> \o RecalculateOrderAgain(
                                    formulas,
                                    IF depKey \in calculated THEN rest
                                    ELSE rest \o formulas[depKey].dependents,
                                    calculated \cup {depKey})

\* DataManager.recalculateDependents, the while loop: the keys whose formula it
\* evaluates, in the order of the evaluations
RECURSIVE RecalculateOrder(_, _, _)
RecalculateOrder(formulas, toRecalculate, calculated) ==
    IF toRecalculate = <<>> THEN <<>>
    ELSE LET depKey == Head(toRecalculate)
             rest   == Tail(toRecalculate)
         IN  IF depKey \in calculated
             THEN RecalculateOrder(formulas, rest, calculated)
             ELSE IF depKey \notin DOMAIN formulas
             THEN RecalculateOrder(formulas, rest, calculated)
             ELSE <<depKey>> \o RecalculateOrder(formulas,
                                                 rest \o formulas[depKey].dependents,
                                                 calculated \cup {depKey})

\* DataManager.recalculateDependents: the keys it evaluates
recalculationOrder(formulas, key) ==
    IF key \notin DOMAIN formulas THEN <<>>
    ELSE RecalculateOrder(formulas, formulas[key].dependents, {})

\* DataManager.recalculateDependents
recalculateDependents(celldata, formulas, key) ==
    IF key \notin DOMAIN formulas THEN celldata
    ELSE RecalculateQueue(celldata, formulas, formulas[key].dependents, {})

IsFormulaText(value) == value # <<>> /\ Head(value) = "="

\* DataManager.createCellValue (no format)
createCellValue(value) ==
    IF IsFormulaText(value)
    THEN [f |-> value, m |-> value, v |-> Str(<<>>), calculated |-> TRUE]
    ELSE [v |-> parseValue(value), m |-> value]

\* a faulty addUndoAction, which does not limit the undo stack
addUndoActionUnlimited(undoStack, action, maxUndoSteps) ==
    [undoStack |-> Append(undoStack, action), redoStack |-> <<>>]

\* a faulty addUndoAction, which leaves an action on the redo stack
addUndoActionKeepingRedo(undoStack, action, maxUndoSteps) ==
    [undoStack |-> IF Len(undoStack) >= maxUndoSteps
                   THEN Append(Tail(undoStack), action) ELSE Append(undoStack, action),
     redoStack |-> <<action>>]

\* DataManager.addUndoAction: [undoStack, redoStack]
addUndoAction(undoStack, action, maxUndoSteps) ==
    LET pushed == Append(undoStack, action)
    IN  [undoStack |-> IF Len(pushed) > maxUndoSteps THEN Tail(pushed) ELSE pushed,
         redoStack |-> <<>>]

\* DataManager.updateDirtyState
updateDirtyState(cellStates) == \E k \in DOMAIN cellStates : cellStates[k].isModified

\* DataManager.updateCellWithFormat without a format, of a sheet that exists, once
\* the validation has passed: the engine record after it (it returns true)
updateCellWithFormat(e, key, newValue) ==
    Let(getCellAt(e.celldata, key), LAMBDA oldValue :
    Let(IF Trim(newValue) = <<>> THEN Null ELSE createCellValue(newValue), LAMBDA newCellValue :
    Let(IF IsFormulaText(newValue)
        THEN updateFormulaCell(e.celldata, e.formulas, key, newValue)
        ELSE updateRegularCell(e.celldata, e.formulas, key, newValue), LAMBDA grid :
    Let(IF key \in DOMAIN e.cellStates THEN e.cellStates[key]
        ELSE createCellState(oldValue, newCellValue), LAMBDA state :
    Let(addUndoAction(e.undoStack,
                      [key |-> key, oldValue |-> oldValue, newValue |-> newCellValue],
                      e.maxUndoSteps), LAMBDA stacks :
        [e EXCEPT !.celldata   = recalculateDependents(grid.celldata, grid.formulas, key),
                  !.formulas   = grid.formulas,
                  !.cellStates = MapSet(e.cellStates, key,
                                        [state EXCEPT
                                           !.currentValue = newCellValue,
                                           !.isModified =
                                               JsonDiffers(state.originalValue, newCellValue),
                                           !.isValid = TRUE,
                                           !.validationError = Null]),
                  !.undoStack  = stacks.undoStack,
                  !.redoStack  = stacks.redoStack,
                  !.isDirty    = TRUE])))))

\* DataManager.getValidationRules
getValidationRules(e, key) ==
    IF key \in DOMAIN e.validationRules THEN e.validationRules[key] ELSE <<>>

\* DataManager.updateCell with validation: [ok, threw, e], what it returns, whether it
\* throws, and the engine record after it.  It throws a TypeError at sheet.formulas.has
\* when formulas is not a Map, before it has written anything.
updateCell(e, key, newValue) ==
    Let(validateCell(newValue, getValidationRules(e, key)), LAMBDA validation :
      IF ~validation.isValid
      THEN [ok    |-> FALSE,
            threw |-> FALSE,
            e     |-> IF key \in DOMAIN e.cellStates
                      THEN [e EXCEPT !.cellStates[key].isValid = FALSE,
                                     !.cellStates[key].validationError =
                                         Str(Join(validation.errors, <<",", " ">>))]
                      ELSE e]
      ELSE IF ~e.formulasIsMap
      THEN [ok |-> FALSE, threw |-> TRUE, e |-> e]
      ELSE [ok |-> TRUE, threw |-> FALSE, e |-> updateCellWithFormat(e, key, newValue)])

\* DataManager.addValidationRule
addValidationRule(e, key, rule) ==
    [e EXCEPT !.validationRules = MapSet(e.validationRules, key,
                                         Append(getValidationRules(e, key), rule))]

\* a faulty undo, which takes a cell for modified while actions are left to undo
undoByStackPosition(e) ==
    LET action == e.undoStack[Len(e.undoStack)]
        key    == action.key
        states == IF key \in DOMAIN e.cellStates
                  THEN [e.cellStates EXCEPT ![key].currentValue = action.oldValue,
                                            ![key].isModified = Len(e.undoStack) > 1]
                  ELSE e.cellStates
    IN  [e EXCEPT !.celldata   = updateCellValue(e.celldata, key,
                                                 IF action.oldValue # Null
                                                 THEN getCellValue(action.oldValue) ELSE <<>>),
                  !.cellStates = states,
                  !.undoStack  = SubSeq(e.undoStack, 1, Len(e.undoStack) - 1),
                  !.redoStack  = Append(e.redoStack, action),
                  !.isDirty    = updateDirtyState(states)]

\* a faulty undo, which makes the value it restores the baseline of the cell
undoResettingOriginal(e) ==
    LET action == e.undoStack[Len(e.undoStack)]
        key    == action.key
        states == IF key \in DOMAIN e.cellStates
                  THEN [e.cellStates EXCEPT ![key].currentValue = action.oldValue,
                                            ![key].originalValue = action.oldValue,
                                            ![key].isModified = FALSE]
                  ELSE e.cellStates
    IN  [e EXCEPT !.celldata   = updateCellValue(e.celldata, key,
                                                 IF action.oldValue # Null
                                                 THEN getCellValue(action.oldValue) ELSE <<>>),
                  !.cellStates = states,
                  !.undoStack  = SubSeq(e.undoStack, 1, Len(e.undoStack) - 1),
                  !.redoStack  = Append(e.redoStack, action),
                  !.isDirty    = updateDirtyState(states)]

\* DataManager.undo with a non-empty undo stack
undo(e) ==
    LET action      == e.undoStack[Len(e.undoStack)]
        key         == action.key
        oldValueStr == IF action.oldValue # Null THEN getCellValue(action.oldValue) ELSE <<>>
        states      == IF key \in DOMAIN e.cellStates
                       THEN [e.cellStates EXCEPT
                               ![key].currentValue = action.oldValue,
                               ![key].isModified =
                                   JsonDiffers(e.cellStates[key].originalValue, action.oldValue)]
                       ELSE e.cellStates
    IN  [e EXCEPT !.celldata   = updateCellValue(e.celldata, key, oldValueStr),
                  !.cellStates = states,
                  !.undoStack  = SubSeq(e.undoStack, 1, Len(e.undoStack) - 1),
                  !.redoStack  = Append(e.redoStack, action),
                  !.isDirty    = updateDirtyState(states)]

\* DataManager.redo with a non-empty redo stack
redo(e) ==
    LET action == e.redoStack[Len(e.redoStack)]
        key    == action.key
        apply  == action.newValue # Null
        states == IF apply /\ key \in DOMAIN e.cellStates
                  THEN [e.cellStates EXCEPT
                          ![key].currentValue = action.newValue,
                          ![key].isModified =
                              JsonDiffers(e.cellStates[key].originalValue, action.newValue)]
                  ELSE e.cellStates
    IN  [e EXCEPT !.celldata   = IF apply
                                 THEN updateCellValue(e.celldata, key, getCellValue(action.newValue))
                                 ELSE e.celldata,
                  !.cellStates = states,
                  !.redoStack  = SubSeq(e.redoStack, 1, Len(e.redoStack) - 1),
                  !.undoStack  = Append(e.undoStack, action),
                  !.isDirty    = updateDirtyState(states)]

\* a faulty markClean, which clears the flags and keeps the baselines
markCleanKeepingOriginal(e) ==
    [e EXCEPT !.cellStates = [k \in DOMAIN e.cellStates |->
                                 [e.cellStates[k] EXCEPT !.isModified = FALSE]],
              !.isDirty = FALSE]

\* DataManager.markClean
markClean(e) ==
    [e EXCEPT !.cellStates = [k \in DOMAIN e.cellStates |->
                                 [e.cellStates[k] EXCEPT !.originalValue = e.cellStates[k].currentValue,
                                                         !.isModified = FALSE]],
              !.isDirty = FALSE]

\* DataManager.getModifiedCells: the keys of the modified cells
getModifiedCells(cellStates) == {k \in DOMAIN cellStates : cellStates[k].isModified}

\* DataManager.initializeFormulas with calculateAllDependencies, of a loaded celldata
RECURSIVE CalculateAll(_, _, _)
CalculateAll(formulas, celldata, keys) ==
    IF keys = <<>> THEN formulas
    ELSE Let(Head(keys), LAMBDA key :
         Let(parseFormula(formulas[key].formula, celldata), LAMBDA result :
             CalculateAll(AddDependent([formulas EXCEPT ![key].dependencies = result.dependencies],
                                       key, result.dependencies),
                          celldata, Tail(keys))))

\* the positions of a set of cells in row-major order
RECURSIVE KeysInOrder(_)
KeysInOrder(keys) ==
    IF keys = {} THEN <<>>
    ELSE LET first == CHOOSE k \in keys :
                         \A o \in keys : k[1] < o[1] \/ (k[1] = o[1] /\ k[2] <= o[2])
         IN  <<first>> \o KeysInOrder(keys \ {first})

initializeFormulas(celldata) ==
    LET withF == {k \in DOMAIN celldata :
                     "f" \in DOMAIN celldata[k] /\ celldata[k].f # <<>>}
        blank == [k \in withF |-> [formula      |-> celldata[k].f,
                                   dependencies |-> <<>>,
                                   dependents   |-> <<>>]]
    IN  CalculateAll(blank, celldata, KeysInOrder(withF))

\* DataManager.initializeCellStates
initializeCellStates(celldata) ==
    [k \in DOMAIN celldata |-> createCellState(celldata[k], celldata[k])]

\* DataManager.constructor: the engine record of a loaded celldata
NewEngine(celldata, maxUndoSteps) ==
    [celldata     |-> celldata,
     formulas     |-> initializeFormulas(celldata),
     cellStates   |-> initializeCellStates(celldata),
     undoStack    |-> <<>>,
     redoStack    |-> <<>>,
     isDirty      |-> FALSE,
     maxUndoSteps |-> maxUndoSteps,
     validationRules |-> EmptyMap,
     formulasIsMap |-> TRUE]

(***************************************************************************)
(* SheetParser.serialize and SheetParser.parse of a list of sheets.  A     *)
(* sheet is [id, name, celldata, formulas]; a JSON text is given by the    *)
(* value JSON.parse reads from it.                                         *)
(***************************************************************************)
\* the values undefined and NaN, and what JSON.stringify writes for a Map
Undefined == [undefined |-> TRUE]

NaNValue == [notANumber |-> TRUE]

EmptyObject == [isMap |-> FALSE]

\* a Map held in the field formulas of a sheet
AMap == [isMap |-> TRUE]

\* JSON.stringify of a value object: a field v that is undefined is left out, and
\* NaN is written as null
stringifyValue(cellValue) ==
    [y \in {x \in DOMAIN cellValue : x # "v" \/ cellValue.v # Undefined} |->
        IF y = "v" /\ cellValue.v = NaNValue THEN Null ELSE cellValue[y]]

\* JSON.stringify of one sheet: a field that is undefined is left out, and a Map is
\* written as {}
stringifySheet(sheet) ==
    [y \in {x \in DOMAIN sheet : x = "celldata" \/ sheet[x] # Undefined} |->
        IF y = "celldata"
        THEN [k \in DOMAIN sheet.celldata |-> stringifyValue(sheet.celldata[k])]
        ELSE IF y = "formulas" THEN EmptyObject
        ELSE sheet[y]]

\* SheetParser.serialize of a list of sheets
serializeSheets(sheets) == [i \in DOMAIN sheets |-> stringifySheet(sheets[i])]

\* the field y of an object, undefined when it has none
Field(object, y) == IF y \in DOMAIN object THEN object[y] ELSE Undefined

\* a scalar that is false in a condition
Falsy(x) == x \in {Undefined, Null, Str(<<>>), Num(0)}

\* a faulty normalizeSheet, which drops the cells
normalizeSheetWithoutCells(sheet) ==
    [id        |-> IF Falsy(Field(sheet, "id"))
                   THEN Str(<<"s", "h", "e", "e", "t", "1">>) ELSE sheet.id,
     name      |-> IF Falsy(Field(sheet, "name"))
                   THEN Str(<<"S", "h", "e", "e", "t", "1">>) ELSE sheet.name,
     plugin    |-> Field(sheet, "plugin"),
     config    |-> IF Falsy(Field(sheet, "config")) THEN EmptyObject ELSE sheet.config,
     celldata  |-> EmptyMap,
     calcChain |-> Field(sheet, "calcChain")]

\* SheetParser.normalizeSheet
normalizeSheet(sheet) ==
    [id        |-> IF Falsy(Field(sheet, "id"))
                   THEN Str(<<"s", "h", "e", "e", "t", "1">>) ELSE sheet.id,
     name      |-> IF Falsy(Field(sheet, "name"))
                   THEN Str(<<"S", "h", "e", "e", "t", "1">>) ELSE sheet.name,
     plugin    |-> Field(sheet, "plugin"),
     config    |-> IF Falsy(Field(sheet, "config")) THEN EmptyObject ELSE sheet.config,
     celldata  |-> IF "celldata" \in DOMAIN sheet THEN sheet.celldata ELSE EmptyMap,
     calcChain |-> Field(sheet, "calcChain")]

\* SheetParser.parse of a text that holds an array of sheets
parse(content) == [i \in DOMAIN content |-> normalizeSheet(content[i])]

\* JSON.stringify of a value object or null
stringifyOrNull(cellValue) == IF cellValue = Null THEN Null ELSE stringifyValue(cellValue)

\* DataManager.createBackup: the text, given by the value JSON.parse reads from it.
\* The timestamps are left out.
createBackup(e, tracking) ==
    [sheetData  |-> stringifySheet([celldata |-> e.celldata,
                                    formulas |-> IF e.formulasIsMap THEN AMap ELSE EmptyObject]),
     cellStates |-> [k \in DOMAIN e.cellStates |->
                       [e.cellStates[k] EXCEPT !.originalValue = stringifyOrNull(@),
                                               !.currentValue = stringifyOrNull(@)]],
     undoStack  |-> [i \in DOMAIN e.undoStack |->
                       [e.undoStack[i] EXCEPT !.oldValue = stringifyOrNull(@),
                                              !.newValue = stringifyOrNull(@)]],
     checksum   |-> tracking.lastFileChecksum]

\* DataManager.restoreFromBackup of a text createBackup returned: [e, conflict].  The
\* field formulas of the restored sheet is the plain object JSON.parse read.
restoreFromBackup(e, tracking, backupData) ==
    [e        |-> [e EXCEPT !.celldata = backupData.sheetData.celldata,
                            !.formulas = EmptyMap,
                            !.formulasIsMap = backupData.sheetData.formulas = AMap,
                            !.cellStates = backupData.cellStates,
                            !.undoStack = backupData.undoStack,
                            !.redoStack = <<>>],
     conflict |-> [tracking EXCEPT !.lastFileChecksum = backupData.checksum]]

(***************************************************************************)
(* DataManager: conflict detection.  The content of the backing file is    *)
(* given by the document it holds; its text is JSON.stringify's rendering  *)
(* cut down to the cells in row-major order, each with its position and    *)
(* the fields v, m and f of its value, without key names and white space.  *)
(***************************************************************************)
\* the characters of code 32 to 95, in the order of their codes
Ascii == <<" ", "!", "\"", "#", "$", "%", "&", "'", "(", ")", "*", "+", ",", "-", ".", "/",
           "0", "1", "2", "3", "4", "5", "6", "7", "8", "9", ":", ";", "<", "=", ">", "?",
           "@", "A", "B", "C", "D", "E", "F", "G", "H", "I", "J", "K", "L", "M", "N", "O",
           "P", "Q", "R", "S", "T", "U", "V", "W", "X", "Y", "Z", "[", "\\", "]", "^", "_">>

\* the code of the first character of the table Ascii
FirstAsciiCode == 32

\* String.prototype.charCodeAt of one character
charCodeAt(c) == IndexOf(Ascii, c) + FirstAsciiCode - 1

\* the text of a number or a string in a JSON text
JsonScalar(x) == IF IsNum(x) THEN JsString(x) ELSE <<"\"">> \o x.str \o <<"\"">>

\* the text of one cell
JsonCell(key, cell) ==
    <<"[">> \o JsString(Num(key[1])) \o <<",">> \o JsString(Num(key[2]))
      \o (IF "v" \in DOMAIN cell THEN <<",">> \o JsonScalar(cell.v) ELSE <<>>)
      \o (IF "m" \in DOMAIN cell THEN <<",">> \o JsonScalar(Str(cell.m)) ELSE <<>>)
      \o (IF "f" \in DOMAIN cell THEN <<",">> \o JsonScalar(Str(cell.f)) ELSE <<>>)
      \o <<"]">>

RECURSIVE JsonCells(_, _)
JsonCells(celldata, keys) ==
    IF keys = <<>> THEN <<>>
    ELSE JsonCell(Head(keys), celldata[Head(keys)]) \o JsonCells(celldata, Tail(keys))

\* SheetParser.serialize: the text of a document
serialize(celldata) == JsonCells(celldata, KeysInOrder(DOMAIN celldata))

\* the two halves of a 32-bit integer are numbers below HalfWord
HalfWord == 65536

\* the multiplier of the hash: (hash << 5) - hash is 31 * hash
HashMultiplier == 31

\* DataManager.generateFileChecksum, one turn of the loop: the 32-bit hash is the pair
\* <<high half, low half>>, and hash & hash keeps the 32 low bits
HashStep(hash, char) ==
    Let(HashMultiplier * hash[2] + char, LAMBDA low :
        <<(HashMultiplier * hash[1] + (low \div HalfWord)) % HalfWord, low % HalfWord>>)

RECURSIVE HashFrom(_, _)
HashFrom(hash, content) ==
    IF content = <<>> THEN hash
    ELSE HashFrom(HashStep(hash, charCodeAt(Head(content))), Tail(content))

\* DataManager.generateFileChecksum: the checksum is hash.toString(16), kept as the hash
generateFileChecksum(content) == [hash |-> HashFrom(<<0, 0>>, content)]

\* DataManager.findConflictedCells: the set of the conflicts of the modified cells
findConflictedCells(cellStates, remote) ==
    {[key         |-> key,
      localValue  |-> cellStates[key].currentValue,
      remoteValue |-> getCellAt(remote, key),
      baseValue   |-> cellStates[key].originalValue] :
        key \in {k \in getModifiedCells(cellStates) :
                    /\ JsonDiffers(getCellAt(remote, k), cellStates[k].originalValue)
                    /\ JsonDiffers(getCellAt(remote, k), cellStates[k].currentValue)}}

\* a faulty detectConflicts, which takes a missing baseline checksum for a changed file
detectConflictsEager(cellStates, tracking, remote, fileModifiedTime, time) ==
    Let(generateFileChecksum(serialize(remote)), LAMBDA currentChecksum :
    Let(tracking.lastFileChecksum # currentChecksum, LAMBDA hasFileChanged :
    Let(IF hasFileChanged THEN findConflictedCells(cellStates, remote) ELSE {},
        LAMBDA conflictedCells :
      IF conflictedCells # {}
      THEN Let([type              |-> "version_mismatch",
                conflictedCells   |-> conflictedCells,
                fileChecksum      |-> currentChecksum,
                lastKnownModified |-> fileModifiedTime], LAMBDA info :
             [conflict |-> [tracking EXCEPT !.conflictInfo = info], result |-> info])
      ELSE [conflict |-> [tracking EXCEPT
                            !.lastFileChecksum = currentChecksum,
                            !.lastFileModified = IF fileModifiedTime # Null
                                                 THEN fileModifiedTime ELSE time],
            result   |-> Null])))

\* a faulty detectConflicts, which drops the active ConflictInfo when it finds no conflict
detectConflictsClearing(cellStates, tracking, remote, fileModifiedTime, time) ==
    Let(generateFileChecksum(serialize(remote)), LAMBDA currentChecksum :
    Let(/\ tracking.lastFileChecksum # Null
        /\ tracking.lastFileChecksum # currentChecksum, LAMBDA hasFileChanged :
    Let(/\ fileModifiedTime # Null
        /\ tracking.lastFileModified # Null
        /\ fileModifiedTime.num > tracking.lastFileModified.num, LAMBDA hasTimeChanged :
    Let(IF hasFileChanged \/ hasTimeChanged
        THEN findConflictedCells(cellStates, remote) ELSE {}, LAMBDA conflictedCells :
      IF conflictedCells # {}
      THEN Let([type              |-> IF hasTimeChanged THEN "file_modified"
                                      ELSE "version_mismatch",
                conflictedCells   |-> conflictedCells,
                fileChecksum      |-> currentChecksum,
                lastKnownModified |-> fileModifiedTime], LAMBDA info :
             [conflict |-> [tracking EXCEPT !.conflictInfo = info], result |-> info])
      ELSE [conflict |-> [tracking EXCEPT
                            !.conflictInfo = Null,
                            !.lastFileChecksum = currentChecksum,
                            !.lastFileModified = IF fileModifiedTime # Null
                                                 THEN fileModifiedTime ELSE time],
            result   |-> Null]))))

\* DataManager.detectConflicts of the content of the document remote, which the host
\* read with the modification time fileModifiedTime (Null when it gives none), at the
\* time time (both as numbers Num(t)): [conflict, result], the tracking state after it and what it returns
detectConflicts(cellStates, tracking, remote, fileModifiedTime, time) ==
    Let(generateFileChecksum(serialize(remote)), LAMBDA currentChecksum :
    Let(/\ tracking.lastFileChecksum # Null
        /\ tracking.lastFileChecksum # currentChecksum, LAMBDA hasFileChanged :
    Let(/\ fileModifiedTime # Null
        /\ tracking.lastFileModified # Null
        /\ fileModifiedTime.num > tracking.lastFileModified.num, LAMBDA hasTimeChanged :
    Let(IF hasFileChanged \/ hasTimeChanged
        THEN findConflictedCells(cellStates, remote) ELSE {}, LAMBDA conflictedCells :
      IF conflictedCells # {}
      THEN Let([type              |-> IF hasTimeChanged THEN "file_modified"
                                      ELSE "version_mismatch",
                conflictedCells   |-> conflictedCells,
                fileChecksum      |-> currentChecksum,
                lastKnownModified |-> fileModifiedTime], LAMBDA info :
             [conflict |-> [tracking EXCEPT !.conflictInfo = info], result |-> info])
      ELSE [conflict |-> [tracking EXCEPT
                            !.lastFileChecksum = currentChecksum,
                            !.lastFileModified = IF fileModifiedTime # Null
                                                 THEN fileModifiedTime ELSE time],
            result   |-> Null]))))

\* DataManager.detectConflicts in a document of two sheets, whose CellStates are states1
\* and states2: the content of the backing file holds the sheets remote1 and remote2.
\* findConflictedCells goes through the modified cells of both sheets, finds the remote
\* sheet of each by its id and collects records that hold no sheet id.
detectConflictsOfSheets(states1, states2, tracking, remote1, remote2, fileModifiedTime, time) ==
    Let(generateFileChecksum(serialize(remote1) \o serialize(remote2)), LAMBDA currentChecksum :
    Let(/\ tracking.lastFileChecksum # Null
        /\ tracking.lastFileChecksum # currentChecksum, LAMBDA hasFileChanged :
    Let(/\ fileModifiedTime # Null
        /\ tracking.lastFileModified # Null
        /\ fileModifiedTime.num > tracking.lastFileModified.num, LAMBDA hasTimeChanged :
    Let(IF hasFileChanged \/ hasTimeChanged
        THEN findConflictedCells(states1, remote1) \cup findConflictedCells(states2, remote2)
        ELSE {}, LAMBDA conflictedCells :
      IF conflictedCells # {}
      THEN Let([type              |-> IF hasTimeChanged THEN "file_modified"
                                      ELSE "version_mismatch",
                conflictedCells   |-> conflictedCells,
                fileChecksum      |-> currentChecksum,
                lastKnownModified |-> fileModifiedTime], LAMBDA info :
             [conflict |-> [tracking EXCEPT !.conflictInfo = info], result |-> info])
      ELSE [conflict |-> [tracking EXCEPT
                            !.lastFileChecksum = currentChecksum,
                            !.lastFileModified = IF fileModifiedTime # Null
                                                 THEN fileModifiedTime ELSE time],
            result   |-> Null]))))

\* DataManager.resolveConflicts, the text it hands to updateCell for a resolved value
ResolvedText(resolvedValue) ==
    IF resolvedValue = Null THEN <<>>
    ELSE IF IsStr(resolvedValue.v) THEN resolvedValue.v.str
    ELSE IF resolvedValue.v.num = 0 THEN <<>>
    ELSE JsString(resolvedValue.v)

\* DataManager.resolveConflicts, its loop over the resolved cells [key, resolvedValue]:
\* [e, edited], the engine record after it and the cells updateCell accepted, in order.
\* A cell that is not among the conflicted cells finds no sheet and is skipped.
RECURSIVE ApplyResolved(_, _, _, _)
ApplyResolved(e, edited, conflictedKeys, resolvedCells) ==
    IF resolvedCells = <<>> THEN [e |-> e, edited |-> edited, threw |-> FALSE]
    ELSE Let(Head(resolvedCells), LAMBDA cell :
           IF cell.key \notin conflictedKeys
           THEN ApplyResolved(e, edited, conflictedKeys, Tail(resolvedCells))
           ELSE Let(updateCell(e, cell.key, ResolvedText(cell.resolvedValue)), LAMBDA updated :
                  IF updated.threw THEN [e |-> e, edited |-> edited, threw |-> TRUE]
                  ELSE ApplyResolved(updated.e,
                                     IF updated.ok THEN Append(edited, cell.key) ELSE edited,
                                     conflictedKeys, Tail(resolvedCells))))

\* DataManager.resolveConflicts: [ok, e, conflict, edited]
resolveConflicts(e, tracking, resolvedCells) ==
    IF tracking.conflictInfo = Null
    THEN [ok |-> FALSE, e |-> e, conflict |-> tracking, edited |-> <<>>]
    ELSE Let(ApplyResolved(e, <<>>,
                           {c.key : c \in tracking.conflictInfo.conflictedCells},
                           resolvedCells), LAMBDA applied :
           [ok       |-> ~applied.threw,
            e        |-> applied.e,
            conflict |-> IF applied.threw THEN tracking
                         ELSE [tracking EXCEPT !.conflictInfo = Null],
            edited   |-> applied.edited])

\* DataManager.hasActiveConflicts
hasActiveConflicts(tracking) == tracking.conflictInfo # Null

(***************************************************************************)
(* The state.                                                              *)
(***************************************************************************)
VARIABLES
    dm,              \* the DataManager's sheet and state manager: an engine record
    autoSaveConfig,  \* stateManager.autoSaveConfig: [enabled, maxRetries]
    autoSaveState,   \* stateManager.autoSaveState: [isSaving, lastError, saveCount, retryCount]
    saveCallback,    \* whether DataManager.saveCallback is set
    autoSaveTimer,   \* DataManager.autoSaveTimer: a timer handle, 0 for null
    debounceTimer,   \* DataManager.debounceTimer: a timer handle, 0 for null
    timers,          \* the host's live timers: handle -> [kind, due, delay]
    nextHandle,      \* the handle the next setTimeout or setInterval returns
    now,             \* the clock, in ticks
    inFlight,        \* the invocations of the save callback that have not completed:
                     \* the celldata each serialized
    disk,            \* the celldata the backing file holds
    conflict,        \* [conflictInfo, lastFileChecksum, lastFileModified]
    hist,            \* the last two calls, the newest first (observation)
    calls,           \* the number of calls the host made (observation)
    events,          \* the number of calls, timer firings and completions (observation)
    retryDelays,     \* the retry delays scheduled since the last successful save (observation)
    editedInFlight,  \* the cells edited since the save in flight started (observation)
    lastTrigger,     \* the last call of performAutoSave (observation)
    lastEdit,        \* the last edit: its time, and the number of edits of its burst, the
                     \* edits that each arrived with the debounce timer pending (observation)
    lastDetect,      \* the last call of detectConflicts (observation)
    backup,          \* the backup the host holds: [text, taken], the text createBackup
                     \* returned and the engine record it was taken of (observation)
    sheet2           \* the second sheet of the document, 'sheet2': an engine record of
                     \* which the sheet and its CellStates are used, Null in a document
                     \* of one sheet

vars == <<dm, autoSaveConfig, autoSaveState, saveCallback, autoSaveTimer, debounceTimer,
          timers, nextHandle, now, inFlight, disk, conflict, hist, calls, events, retryDelays,
          editedInFlight, lastTrigger, lastEdit, lastDetect, backup, sheet2>>

schedVars == <<autoSaveConfig, autoSaveState, saveCallback, autoSaveTimer, debounceTimer,
               timers, nextHandle, now, inFlight, disk, retryDelays, editedInFlight,
               lastTrigger, lastEdit, backup, sheet2>>

conflictVars == <<conflict, lastDetect>>

(***************************************************************************)
(* Inputs.                                                                 *)
(***************************************************************************)
Keys == {getCellKey(0, c) : c \in 0..(NumCols - 1)}

A1 == getCellKey(0, 0)

B1 == getCellKey(0, 1)

C1 == getCellKey(0, 2)

NoKey == getCellKey(-1, -1)

Literal(text) == [v |-> parseValue(text), m |-> text]

\* the document of the example of the specification: A1 = 2, B1 = 3
ExampleDoc == MapSet(MapSet(EmptyMap, A1, Literal(<<"2">>)), B1, Literal(<<"3">>))

\* the same with the formula =A1+B1 stored in C1
FormulaDoc == MapSet(ExampleDoc, C1,
                     [v |-> Num(5), m |-> <<"5">>,
                      f |-> <<"=", "A", "1", "+", "B", "1">>, calculated |-> TRUE])

InitialDocs == {ExampleDoc, FormulaDoc}

\* the texts typed into a cell
EditTexts == { <<>>,
               <<"1", "0">>,
               <<"=", "A", "1", "+", "B", "1">>,
               <<"=", "A", "1">> }

(***************************************************************************)
(* Observation of a call.                                                  *)
(***************************************************************************)
\* CellState.isModified of a cell, false when it has no CellState
IsModifiedAt(e, key) == key \in DOMAIN e.cellStates /\ e.cellStates[key].isModified

\* DataManager.getCellState
getCellState(e, key) == MapGet(e.cellStates, key)

\* what is kept of a call: the cell it addressed, before and after
Call(op, key, text, before, after) ==
    [op          |-> op,
     key         |-> key,
     text        |-> text,
     preCell     |-> getCellAt(before.celldata, key),
     preDisplay  |-> getCellValue(getCellAt(before.celldata, key)),
     preModified |-> IsModifiedAt(before, key),
     preFormulas |-> before.formulas,
     preUndo     |-> before.undoStack,
     preRedo     |-> before.redoStack,
     postCell    |-> getCellAt(after.celldata, key),
     postState   |-> getCellState(after, key),
     ok          |-> TRUE,
     threw       |-> FALSE]

\* the same of a call that returned ok
Returned(call, ok) == [call EXCEPT !.ok = ok]

\* the same of a call that threw if threw
Thrown(call, threw) == [call EXCEPT !.threw = threw]

Record(call) == /\ hist' = IF hist = <<>> THEN <<call>> ELSE <<call, hist[1]>>
                /\ events' = events + 1

\* the step is a call of op
IsCall(op) == events' # events /\ hist'[1].op = op

(***************************************************************************)
(* DataManager: the auto-save scheduler.                                   *)
(***************************************************************************)
Min(a, b) == IF a < b THEN a ELSE b

\* DataManager.startAutoSave: [autoSaveTimer, timers, nextHandle]
startAutoSave(enabled, timer, tm, handle, time) ==
    IF ~enabled
    THEN [autoSaveTimer |-> timer, timers |-> tm, nextHandle |-> handle]
    ELSE [autoSaveTimer |-> handle,
          timers        |-> MapSet(tm, handle,
                                   [kind |-> "interval", due |-> time + IntervalTicks, delay |-> 0]),
          nextHandle    |-> handle + 1]

\* a faulty scheduleAutoSave, which leaves the pending debounce timer running
scheduleAutoSaveKeepingTimer(enabled, callback, timer, tm, handle, time) ==
    IF ~enabled \/ ~callback
    THEN [debounceTimer |-> timer, timers |-> tm, nextHandle |-> handle]
    ELSE [debounceTimer |-> handle,
          timers        |-> MapSet(tm, handle,
                                   [kind |-> "debounce", due |-> time + DebounceTicks, delay |-> 0]),
          nextHandle    |-> handle + 1]

\* DataManager.scheduleAutoSave: [debounceTimer, timers, nextHandle]
scheduleAutoSave(enabled, callback, timer, tm, handle, time) ==
    IF ~enabled \/ ~callback
    THEN [debounceTimer |-> timer, timers |-> tm, nextHandle |-> handle]
    ELSE [debounceTimer |-> handle,
          timers        |-> MapSet(IF timer # 0 THEN MapDel(tm, timer) ELSE tm, handle,
                                   [kind |-> "debounce", due |-> time + DebounceTicks, delay |-> 0]),
          nextHandle    |-> handle + 1]

\* DataManager.stopAutoSave: [autoSaveTimer, debounceTimer, timers]
stopAutoSave(intervalTimer, timeoutTimer, tm) ==
    [autoSaveTimer |-> 0,
     debounceTimer |-> 0,
     timers        |-> [h \in DOMAIN tm \ {intervalTimer, timeoutTimer} |-> tm[h]]]

\* a faulty guard of performAutoSave, which does not look at isSaving
performAutoSaveRunsUnguarded(isDirty, isSaving, callback) == isDirty /\ callback

\* a faulty retry delay, which has no cap
retryDelayUncapped(retryCount) == BaseRetryDelayMs * (2 ^ retryCount)

\* DataManager.performAutoSave, its guard: whether the call goes on to save
performAutoSaveRuns(isDirty, isSaving, callback) == isDirty /\ ~isSaving /\ callback

\* DataManager.performAutoSave, the retry delay in ms after a failure
retryDelay(retryCount) == Min(BaseRetryDelayMs * (2 ^ retryCount), MaxRetryDelayMs)

\* DataManager.performAutoSave up to the await: with the guard passed it sets isSaving
\* and invokes the save callback, SheetView.performSave, which serializes the sheets
\* and starts writing them
PerformAutoSave(kind) ==
    LET runs == performAutoSaveRuns(dm.isDirty, autoSaveState.isSaving, saveCallback)
    IN  /\ lastTrigger' = [kind |-> kind, invoked |-> runs, at |-> now,
                           dirty |-> dm.isDirty, saving |-> autoSaveState.isSaving]
        /\ IF runs
           THEN /\ autoSaveState' = [autoSaveState EXCEPT !.isSaving = TRUE, !.lastError = FALSE]
                /\ inFlight' = Append(inFlight, dm.celldata)
                /\ editedInFlight' = {}
           ELSE UNCHANGED <<autoSaveState, inFlight, editedInFlight>>

NoCall(op) == Call(op, NoKey, <<>>, dm, dm)

\* the interval timer fires
IntervalFire(h) ==
    /\ h \in DOMAIN timers
    /\ timers[h].kind = "interval"
    /\ timers[h].due <= now
    /\ timers' = [timers EXCEPT ![h].due = @ + IntervalTicks]
    /\ PerformAutoSave("interval")
    /\ Record(NoCall("intervalFire"))
    /\ UNCHANGED <<dm, autoSaveConfig, saveCallback, autoSaveTimer, debounceTimer, nextHandle,
                   now, disk, conflict, calls, retryDelays, lastEdit, lastDetect, backup, sheet2>>

\* the debounce timer or a retry timer fires
TimeoutFire(h, kind) ==
    /\ h \in DOMAIN timers
    /\ timers[h].kind = kind
    /\ timers[h].due <= now
    /\ timers' = MapDel(timers, h)
    /\ PerformAutoSave(kind)
    /\ Record(NoCall(kind))
    /\ UNCHANGED <<dm, autoSaveConfig, saveCallback, autoSaveTimer, debounceTimer, nextHandle,
                   now, disk, conflict, calls, retryDelays, lastEdit, lastDetect, backup, sheet2>>

DebounceFire(h) == TimeoutFire(h, "debounce")

RetryFire(h) == TimeoutFire(h, "retry")

\* DataManager.forceAutoSave
ForceAutoSave ==
    /\ PerformAutoSave("force")
    /\ Record(NoCall("forceAutoSave"))
    /\ calls' = calls + 1
    /\ UNCHANGED <<dm, autoSaveConfig, saveCallback, autoSaveTimer, debounceTimer, timers,
                   nextHandle, now, disk, conflict, retryDelays, lastEdit, lastDetect, backup, sheet2>>

\* DataManager.enableAutoSave(enabled)
EnableAutoSave(enabled) ==
    LET started == startAutoSave(TRUE, autoSaveTimer, timers, nextHandle, now)
        stopped == stopAutoSave(autoSaveTimer, debounceTimer, timers)
    IN  /\ autoSaveConfig' = [autoSaveConfig EXCEPT !.enabled = enabled]
        /\ autoSaveTimer' = IF enabled THEN started.autoSaveTimer ELSE stopped.autoSaveTimer
        /\ debounceTimer' = IF enabled THEN debounceTimer ELSE stopped.debounceTimer
        /\ timers' = IF enabled THEN started.timers ELSE stopped.timers
        /\ nextHandle' = IF enabled THEN started.nextHandle ELSE nextHandle
        /\ calls' = calls + 1
        /\ Record(NoCall(IF enabled THEN "enableAutoSave" ELSE "disableAutoSave"))
        /\ UNCHANGED <<dm, autoSaveState, saveCallback, now, inFlight, disk, conflict,
                       retryDelays, editedInFlight, lastTrigger, lastEdit, lastDetect, backup, sheet2>>

\* DataManager.updateAutoSaveConfig, Object.assign: the fields of config replace those of
\* the configuration
AssignConfig(autoSave, config) ==
    [y \in DOMAIN autoSave |-> IF y \in DOMAIN config THEN config[y] ELSE autoSave[y]]

\* DataManager.updateAutoSaveConfig(config)
UpdateAutoSaveConfig(config) ==
    LET assigned == AssignConfig(autoSaveConfig, config)
        stopped  == stopAutoSave(autoSaveTimer, debounceTimer, timers)
        started  == startAutoSave(TRUE, stopped.autoSaveTimer, stopped.timers, nextHandle, now)
    IN  /\ autoSaveConfig' = assigned
        /\ autoSaveTimer' = IF assigned.enabled THEN started.autoSaveTimer ELSE autoSaveTimer
        /\ debounceTimer' = IF assigned.enabled THEN stopped.debounceTimer ELSE debounceTimer
        /\ timers' = IF assigned.enabled THEN started.timers ELSE timers
        /\ nextHandle' = IF assigned.enabled THEN started.nextHandle ELSE nextHandle
        /\ calls' = calls + 1
        /\ Record(NoCall("updateAutoSaveConfig"))
        /\ UNCHANGED <<dm, autoSaveState, saveCallback, now, inFlight, disk, conflict,
                       retryDelays, editedInFlight, lastTrigger, lastEdit, lastDetect, backup, sheet2>>

\* DataManager.destroy
Destroy ==
    LET stopped == stopAutoSave(autoSaveTimer, debounceTimer, timers)
    IN  /\ autoSaveTimer' = stopped.autoSaveTimer
        /\ debounceTimer' = stopped.debounceTimer
        /\ timers' = stopped.timers
        /\ calls' = calls + 1
        /\ Record(NoCall("destroy"))
        /\ UNCHANGED <<dm, autoSaveConfig, autoSaveState, saveCallback, nextHandle, now,
                       inFlight, disk, conflict, retryDelays, editedInFlight, lastTrigger,
                       lastEdit, lastDetect, backup, sheet2>>

\* the write of SheetView.performSave completes: it calls markClean, and
\* DataManager.performAutoSave goes on after its await (success, finally)
SaveSucceeds ==
    /\ inFlight # <<>>
    /\ disk' = Head(inFlight)
    /\ inFlight' = Tail(inFlight)
    /\ dm' = markClean(dm)
    /\ autoSaveState' = [autoSaveState EXCEPT !.saveCount = @ + 1,
                                              !.retryCount = 0,
                                              !.isSaving = FALSE]
    /\ retryDelays' = <<>>
    /\ editedInFlight' = {}
    /\ Record(Call("saveSucceeds", NoKey, <<>>, dm, dm'))
    /\ UNCHANGED <<autoSaveConfig, saveCallback, autoSaveTimer, debounceTimer, timers,
                   nextHandle, now, conflict, calls, lastTrigger, lastEdit, lastDetect, backup, sheet2>>

\* the write of SheetView.performSave fails: performSave throws, and
\* DataManager.performAutoSave goes on in its catch (retry, finally)
SaveFails ==
    /\ inFlight # <<>>
    /\ inFlight' = Tail(inFlight)
    /\ LET retries == autoSaveState.retryCount + 1
           retry == retries < autoSaveConfig.maxRetries
           delay == retryDelay(retries)
       IN  /\ autoSaveState' = [autoSaveState EXCEPT !.lastError = TRUE,
                                                     !.retryCount = retries,
                                                     !.isSaving = FALSE]
           /\ timers' = IF retry
                        THEN MapSet(timers, nextHandle,
                                    [kind |-> "retry", due |-> now + (delay \div TickMs),
                                     delay |-> delay])
                        ELSE timers
           /\ nextHandle' = IF retry THEN nextHandle + 1 ELSE nextHandle
           /\ retryDelays' = IF retry
                             THEN Append(retryDelays, [retryCount |-> retries, delay |-> delay])
                             ELSE retryDelays
    /\ Record(NoCall("saveFails"))
    /\ UNCHANGED <<dm, autoSaveConfig, saveCallback, autoSaveTimer, debounceTimer, now, disk,
                   conflict, calls, editedInFlight, lastTrigger, lastEdit, lastDetect, backup, sheet2>>

\* time passes: one tick, once every timer that is due has fired
Tick ==
    /\ now < MaxTime
    /\ \A h \in DOMAIN timers : timers[h].due > now
    /\ now' = now + 1
    /\ UNCHANGED <<dm, autoSaveConfig, autoSaveState, saveCallback, autoSaveTimer,
                   debounceTimer, timers, nextHandle, inFlight, disk, conflict, hist, calls,
                   events, retryDelays, editedInFlight, lastTrigger, lastEdit, lastDetect, backup, sheet2>>

(***************************************************************************)
(* DataManager: the calls that edit.                                       *)
(***************************************************************************)
\* DataManager.updateCell(sheetId, row, col, newValue)
UpdateCell(key, newValue) ==
    LET sched == scheduleAutoSave(autoSaveConfig.enabled, saveCallback, debounceTimer,
                                  timers, nextHandle, now)
        ok    == validateCell(newValue, getValidationRules(dm, key)).isValid
                   /\ dm.formulasIsMap
    IN  /\ dm' = updateCell(dm, key, newValue).e
        /\ IF ok
           THEN /\ debounceTimer' = sched.debounceTimer
                /\ timers' = sched.timers
                /\ nextHandle' = sched.nextHandle
                /\ editedInFlight' = IF inFlight # <<>> THEN editedInFlight \cup {key}
                                     ELSE editedInFlight
                /\ lastEdit' = [at    |-> now,
                                burst |-> IF debounceTimer \in DOMAIN timers
                                          THEN lastEdit.burst + 1 ELSE 1]
           ELSE UNCHANGED <<debounceTimer, timers, nextHandle, editedInFlight, lastEdit>>
        /\ calls' = calls + 1
        /\ Record(Thrown(Returned(Call("updateCell", key, newValue, dm, dm'), ok),
                          validateCell(newValue, getValidationRules(dm, key)).isValid
                            /\ ~dm.formulasIsMap))
        /\ UNCHANGED <<autoSaveConfig, autoSaveState, saveCallback, autoSaveTimer, now,
                       inFlight, disk, conflict, retryDelays, lastTrigger, lastDetect, backup, sheet2>>

\* DataManager.addValidationRule(sheetId, row, col, rule)
AddValidationRule(key, rule) ==
    /\ dm' = addValidationRule(dm, key, rule)
    /\ calls' = calls + 1
    /\ Record(Call("addValidationRule", key, <<>>, dm, dm'))
    /\ UNCHANGED <<schedVars, conflictVars>>

\* DataManager.undo
Undo ==
    /\ dm.undoStack # <<>>
    /\ dm' = undo(dm)
    /\ Record(Call("undo", dm.undoStack[Len(dm.undoStack)].key, <<>>, dm, dm'))
    /\ calls' = calls + 1
    /\ UNCHANGED <<schedVars, conflictVars>>

\* DataManager.redo
Redo ==
    /\ dm.redoStack # <<>>
    /\ dm' = redo(dm)
    /\ Record(Call("redo", dm.redoStack[Len(dm.redoStack)].key, <<>>, dm, dm'))
    /\ calls' = calls + 1
    /\ UNCHANGED <<schedVars, conflictVars>>

\* DataManager.markClean, called by the host after a save of its own
MarkClean ==
    /\ dm' = markClean(dm)
    /\ calls' = calls + 1
    /\ Record(Call("markClean", NoKey, <<>>, dm, dm'))
    /\ UNCHANGED <<schedVars, conflictVars>>

\* DataManager.detectConflicts(currentFileContent, fileModifiedTime)
DetectConflicts(remote, fileModifiedTime) ==
    /\ LET detected == detectConflicts(dm.cellStates, conflict, remote, fileModifiedTime, Num(now))
       IN  /\ conflict' = detected.conflict
           /\ lastDetect' = [remote |-> remote, result |-> detected.result]
    /\ calls' = calls + 1
    /\ Record(NoCall("detectConflicts"))
    /\ UNCHANGED <<dm, schedVars>>

\* DataManager.updateCell('sheet2', row, col, newValue) in a document of two sheets, no
\* save callback being set (scheduleAutoSave returns at once).  The undo action is kept
\* with the sheet it is about.
UpdateCellOfSheet2(key, newValue) ==
    /\ sheet2 # Null
    /\ ~saveCallback
    /\ sheet2' = updateCell(sheet2, key, newValue).e
    /\ calls' = calls + 1
    /\ Record(Returned(Call("updateCellOfSheet2", key, newValue, sheet2, sheet2'),
                       validateCell(newValue, getValidationRules(sheet2, key)).isValid))
    /\ UNCHANGED <<dm, autoSaveConfig, autoSaveState, saveCallback, autoSaveTimer,
                   debounceTimer, timers, nextHandle, now, inFlight, disk, retryDelays,
                   editedInFlight, lastTrigger, lastEdit, conflictVars, backup>>

\* DataManager.detectConflicts(currentFileContent, fileModifiedTime) in a document of two
\* sheets, the content holding the sheets remote1 and remote2
DetectConflictsOfSheets(remote1, remote2, fileModifiedTime) ==
    /\ sheet2 # Null
    /\ LET detected == detectConflictsOfSheets(dm.cellStates, sheet2.cellStates, conflict,
                                               remote1, remote2, fileModifiedTime, Num(now))
       IN  /\ conflict' = detected.conflict
           /\ lastDetect' = [remote |-> remote1, remote2 |-> remote2,
                             result |-> detected.result]
    /\ calls' = calls + 1
    /\ Record(NoCall("detectConflicts"))
    /\ UNCHANGED <<dm, schedVars>>

\* DataManager.createBackup(), the host keeping the text
CreateBackup ==
    /\ backup' = [text |-> createBackup(dm, conflict), taken |-> dm]
    /\ calls' = calls + 1
    /\ Record(NoCall("createBackup"))
    /\ UNCHANGED <<dm, autoSaveConfig, autoSaveState, saveCallback, autoSaveTimer,
                   debounceTimer, timers, nextHandle, now, inFlight, disk, retryDelays,
                   editedInFlight, lastTrigger, lastEdit, conflictVars, sheet2>>

\* DataManager.restoreFromBackup(backupData) of the text the host keeps
RestoreFromBackup ==
    /\ backup # Null
    /\ LET restored == restoreFromBackup(dm, conflict, backup.text)
       IN  /\ dm' = restored.e
           /\ conflict' = restored.conflict
    /\ calls' = calls + 1
    /\ Record(Call("restoreFromBackup", NoKey, <<>>, dm, dm'))
    /\ UNCHANGED <<schedVars, lastDetect>>

\* DataManager.scheduleAutoSave called once by each of the updateCell calls of
\* resolveConflicts: sched is [debounceTimer, timers, nextHandle]
RECURSIVE ScheduleEach(_, _)
ScheduleEach(edited, sched) ==
    IF edited = <<>> THEN sched
    ELSE ScheduleEach(Tail(edited),
                      scheduleAutoSave(autoSaveConfig.enabled, saveCallback,
                                       sched.debounceTimer, sched.timers, sched.nextHandle, now))

\* DataManager.resolveConflicts(resolution), resolution.resolvedCells being resolvedCells
ResolveConflicts(resolvedCells) ==
    LET resolved == resolveConflicts(dm, conflict, resolvedCells)
        sched    == ScheduleEach(resolved.edited,
                                 [debounceTimer |-> debounceTimer, timers |-> timers,
                                  nextHandle |-> nextHandle])
    IN  /\ dm' = resolved.e
        /\ conflict' = resolved.conflict
        /\ debounceTimer' = sched.debounceTimer
        /\ timers' = sched.timers
        /\ nextHandle' = sched.nextHandle
        /\ editedInFlight' = IF inFlight # <<>>
                             THEN editedInFlight \cup {resolved.edited[i] : i \in DOMAIN resolved.edited}
                             ELSE editedInFlight
        /\ lastEdit' = IF resolved.edited = <<>> THEN lastEdit
                       ELSE [at    |-> now,
                             burst |-> Len(resolved.edited)
                                         + (IF debounceTimer \in DOMAIN timers
                                            THEN lastEdit.burst ELSE 0)]
        /\ calls' = calls + 1
        /\ Record(Returned(Call("resolveConflicts", NoKey, <<>>, dm, dm'), resolved.ok))
        /\ UNCHANGED <<autoSaveConfig, autoSaveState, saveCallback, autoSaveTimer, now,
                       inFlight, disk, retryDelays, lastTrigger, lastDetect, backup, sheet2>>

(***************************************************************************)
(* The editing specification: a DataManager constructed on a loaded        *)
(* document and driven through updateCell, undo, redo and markClean.  No   *)
(* save callback is set and no time passes.                                *)
(***************************************************************************)
NoTrigger == [kind |-> "none", invoked |-> FALSE, at |-> 0, dirty |-> FALSE, saving |-> FALSE]

NoConflictState == [conflictInfo |-> Null, lastFileChecksum |-> Null, lastFileModified |-> Null]

\* DataManager.constructor on the celldata doc, then setSaveCallback if callback
ConstructedWith(doc, second, callback, maxRetries) ==
    LET started == startAutoSave(TRUE, 0, EmptyMap, 1, 0)
    IN  /\ dm = NewEngine(doc, MaxUndoSteps)
        /\ autoSaveConfig = [enabled |-> TRUE, maxRetries |-> maxRetries]
        /\ autoSaveState = [isSaving |-> FALSE, lastError |-> FALSE,
                            saveCount |-> 0, retryCount |-> 0]
        /\ saveCallback = callback
        /\ autoSaveTimer = started.autoSaveTimer
        /\ timers = started.timers
        /\ nextHandle = started.nextHandle
        /\ debounceTimer = 0
        /\ now = 0
        /\ inFlight = <<>>
        /\ disk = doc
        /\ conflict = NoConflictState
        /\ hist = <<>>
        /\ calls = 0
        /\ events = 0
        /\ retryDelays = <<>>
        /\ editedInFlight = {}
        /\ lastTrigger = NoTrigger
        /\ lastEdit = [at |-> -1, burst |-> 0]
        /\ lastDetect = Null
        /\ backup = Null
        /\ sheet2 = second

\* new DataManager(sheetData) of a document of one sheet
Constructed(doc, callback, maxRetries) == ConstructedWith(doc, Null, callback, maxRetries)

Init == \E doc \in InitialDocs : Constructed(doc, FALSE, DefaultMaxRetries)

Next ==
    \/ \E key \in Keys, text \in EditTexts : calls < MaxOps /\ UpdateCell(key, text)
    \/ calls < MaxOps /\ Undo
    \/ calls < MaxOps /\ Redo
    \/ calls < MaxOps /\ MarkClean

Spec == Init /\ [][Next]_vars

(***************************************************************************)
(* The scheduler specification: SheetView.setViewData constructs the       *)
(* DataManager and sets the save callback; the host edits and forces       *)
(* saves, time passes, timers fire, and the writes the save callback       *)
(* starts succeed or fail.                                                 *)
(***************************************************************************)
\* the cells the host edits, and the text it types
SaveKeys == {A1, B1}

SaveText == <<"1", "0">>

InitSave == \E maxRetries \in {DefaultMaxRetries, WideMaxRetries} :
                Constructed(ExampleDoc, TRUE, maxRetries)

NextSave ==
    \/ \E key \in SaveKeys : calls < MaxCalls /\ UpdateCell(key, SaveText)
    \/ calls < MaxCalls /\ ForceAutoSave
    \/ Tick
    \/ \E h \in DOMAIN timers : IntervalFire(h)
    \/ \E h \in DOMAIN timers : DebounceFire(h)
    \/ \E h \in DOMAIN timers : RetryFire(h)
    \/ SaveSucceeds
    \/ SaveFails

SpecSave == InitSave /\ [][NextSave]_vars

(***************************************************************************)
(* The switching specification: the scheduler specification, in which the  *)
(* host also disables and enables auto-save, and destroys the DataManager. *)
(***************************************************************************)
NextSwitch ==
    \/ \E key \in SaveKeys : calls < MaxCalls /\ UpdateCell(key, SaveText)
    \/ calls < MaxCalls /\ ForceAutoSave
    \/ \E enabled \in BOOLEAN : calls < MaxCalls /\ EnableAutoSave(enabled)
    \/ calls < MaxCalls /\ Destroy
    \/ Tick
    \/ \E h \in DOMAIN timers : IntervalFire(h)
    \/ \E h \in DOMAIN timers : DebounceFire(h)
    \/ \E h \in DOMAIN timers : RetryFire(h)
    \/ SaveSucceeds
    \/ SaveFails

SpecSwitch == InitSave /\ [][NextSwitch]_vars

(***************************************************************************)
(* The conflict specification: the host edits, and checks the backing file *)
(* for conflicts with the content and the modification time it reads.      *)
(***************************************************************************)
\* the latest modification time the host reads
MaxFileTime == 2

\* the texts the host types
ConflictTexts == {<<"1", "0">>, <<>>}

\* the documents the backing file holds: A1 as loaded, A1 = 10, A1 = 7
RemoteDocs == {ExampleDoc,
               MapSet(ExampleDoc, A1, Literal(<<"1", "0">>)),
               MapSet(ExampleDoc, A1, Literal(<<"7">>))}

ModifiedTimes == {Null} \cup {Num(t) : t \in 1..MaxFileTime}

\* the number of calls the host makes
MaxConflictCalls == 5

\* SheetView.createKeepLocalResolution (side "local") and createKeepRemoteResolution
\* (side "remote"): the resolved cells of a conflict
ResolvedCells(info, side) ==
    LET keys == KeysInOrder({c.key : c \in info.conflictedCells})
    IN  [i \in DOMAIN keys |->
            LET cell == CHOOSE c \in info.conflictedCells : c.key = keys[i]
            IN  [key           |-> keys[i],
                 resolvedValue |-> IF side = "local" THEN cell.localValue
                                   ELSE cell.remoteValue]]

\* the text "(empty)" SheetView.getCellValueDisplay shows for no value
EmptyDisplay == <<"(", "e", "m", "p", "t", "y", ")">>

\* SheetView.getCellValueDisplay
getCellValueDisplay(cellValue) ==
    IF cellValue = Null THEN EmptyDisplay
    ELSE IF "f" \in DOMAIN cellValue /\ cellValue.f # <<>> THEN cellValue.f
    ELSE IF "v" \in DOMAIN cellValue /\ ~Falsy(cellValue.v) THEN JsString(cellValue.v)
    ELSE IF "m" \in DOMAIN cellValue /\ cellValue.m # <<>> THEN cellValue.m
    ELSE <<>>

\* String.prototype.includes
Includes(s, t) ==
    \E i \in 0..(Len(s) - Len(t)) : SubSeq(s, i + 1, i + Len(t)) = t

\* SheetView.createMergeResolution, the resolved cell of one conflicted cell
MergeCell(cell) ==
    Let(getCellValueDisplay(cell.localValue), LAMBDA localStr :
    Let(getCellValueDisplay(cell.remoteValue), LAMBDA remoteStr :
    Let(localStr \o <<" ", "|", " ">> \o remoteStr, LAMBDA both :
      IF localStr = EmptyDisplay /\ remoteStr # EmptyDisplay
      THEN [key |-> cell.key, resolvedValue |-> cell.remoteValue, reasoning |-> "remote"]
      ELSE IF localStr # EmptyDisplay /\ remoteStr = EmptyDisplay
      THEN [key |-> cell.key, resolvedValue |-> cell.localValue, reasoning |-> "local"]
      ELSE IF localStr # remoteStr
      THEN IF Includes(localStr, remoteStr) \/ Includes(remoteStr, localStr)
           THEN [key           |-> cell.key,
                 resolvedValue |-> IF Len(localStr) > Len(remoteStr)
                                   THEN cell.localValue ELSE cell.remoteValue,
                 reasoning     |-> "longer"]
           ELSE [key           |-> cell.key,
                 resolvedValue |-> [v |-> Str(both), m |-> both],
                 reasoning     |-> "concatenated"]
      ELSE [key |-> cell.key, resolvedValue |-> cell.localValue,
            reasoning |-> "kept local"])))

\* SheetView.createMergeResolution: the resolved cells of a conflict
createMergeResolution(info) ==
    LET keys == KeysInOrder({c.key : c \in info.conflictedCells})
    IN  [i \in DOMAIN keys |->
            MergeCell(CHOOSE c \in info.conflictedCells : c.key = keys[i])]

\* the resolved cells of a resolution the host writes itself
ManualCells == {<<[key |-> key, resolvedValue |-> value]>> :
                   key \in SaveKeys, value \in {Null, Literal(<<"7">>)}}

\* the resolved cells the host can hand to resolveConflicts
Resolutions ==
    IF hasActiveConflicts(conflict)
    THEN {ResolvedCells(conflict.conflictInfo, "local"),
          ResolvedCells(conflict.conflictInfo, "remote")} \cup ManualCells
    ELSE ManualCells

\* the rule the host registers while it resolves
ConflictRule == [type |-> "required", message |-> <<"R">>]

InitConflict == Constructed(ExampleDoc, TRUE, DefaultMaxRetries)

NextConflict ==
    \/ \E text \in ConflictTexts : calls < MaxConflictCalls /\ UpdateCell(A1, text)
    \/ \E remote \in RemoteDocs, fileModifiedTime \in ModifiedTimes :
          calls < MaxConflictCalls /\ DetectConflicts(remote, fileModifiedTime)
    \/ \E resolvedCells \in Resolutions :
          calls < MaxConflictCalls /\ ResolveConflicts(resolvedCells)
    \/ /\ calls < MaxConflictCalls
       /\ getValidationRules(dm, A1) = <<>>
       /\ AddValidationRule(A1, ConflictRule)
    \/ calls < MaxConflictCalls /\ Undo
    \/ calls < MaxConflictCalls /\ Redo
    \/ calls < MaxConflictCalls /\ ForceAutoSave
    \/ SaveSucceeds
    \/ SaveFails

SpecConflict == InitConflict /\ [][NextConflict]_vars

(***************************************************************************)
(* The resolution specification: the host types a text, a number, a        *)
(* formula or nothing into A1, finds a conflict with the backing file and  *)
(* resolves it by keeping the local or the remote values.                  *)
(***************************************************************************)
\* the number of calls the host makes
MaxResolveCalls == 4

\* the texts the host types: the number 0, a text, a formula, nothing
ResolveTexts == {<<"0">>, <<"X">>, <<"=", "B", "1">>, <<>>}

\* the documents the backing file holds: A1 = 0, A1 = 7, A1 = "Y", A1 = formula alone,
\* no A1
ResolveRemotes ==
    {MapSet(ExampleDoc, A1, Literal(<<"0">>)),
     MapSet(ExampleDoc, A1, Literal(<<"7">>)),
     MapSet(ExampleDoc, A1, Literal(<<"Y">>)),
     MapSet(EmptyMap, A1, [v |-> Num(3), m |-> <<"3">>,
                           f |-> <<"=", "B", "1">>, calculated |-> TRUE]),
     MapDel(ExampleDoc, A1)}

NextResolve ==
    \/ \E text \in ResolveTexts : calls < MaxResolveCalls /\ UpdateCell(A1, text)
    \/ \E remote \in ResolveRemotes :
          calls < MaxResolveCalls /\ DetectConflicts(remote, Null)
    \/ \E side \in {"local", "remote"} :
          /\ calls < MaxResolveCalls
          /\ hasActiveConflicts(conflict)
          /\ ResolveConflicts(ResolvedCells(conflict.conflictInfo, side))

SpecResolve == InitConflict /\ [][NextResolve]_vars

(***************************************************************************)
(* The monitoring specification: the scheduler runs while the host edits,  *)
(* checks the backing file for conflicts and resolves them.                *)
(***************************************************************************)
\* the number of calls the host makes
MaxWatchCalls == 4

\* the documents the backing file holds: A1 as loaded, A1 = 7
WatchRemotes == {ExampleDoc, MapSet(ExampleDoc, A1, Literal(<<"7">>))}

NextWatch ==
    \/ calls < MaxWatchCalls /\ UpdateCell(A1, SaveText)
    \/ \E remote \in WatchRemotes :
          calls < MaxWatchCalls /\ DetectConflicts(remote, Null)
    \/ /\ calls < MaxWatchCalls
       /\ hasActiveConflicts(conflict)
       /\ ResolveConflicts(ResolvedCells(conflict.conflictInfo, "remote"))
    \/ Tick
    \/ \E h \in DOMAIN timers : IntervalFire(h)
    \/ \E h \in DOMAIN timers : DebounceFire(h)
    \/ \E h \in DOMAIN timers : RetryFire(h)
    \/ SaveSucceeds
    \/ SaveFails

SpecWatch == InitConflict /\ [][NextWatch]_vars

(***************************************************************************)
(* The formula specification: the host types a formula into C1 of a        *)
(* document that holds 1, "X" and 3 in A1, A2 and A3, and 2 in B1.         *)
(***************************************************************************)
\* the number of formulas the host types
MaxFormulaCalls == 1

\* the largest integer literal of a formula
MaxOperand == 3

Operands == 1..MaxOperand

RangeDoc ==
    MapSet(MapSet(MapSet(MapSet(EmptyMap, A1, Literal(<<"1">>)),
                         getCellKey(1, 0), Literal(<<"X">>)),
                  getCellKey(2, 0), Literal(<<"3">>)),
           B1, Literal(<<"2">>))

\* the text a op1 b op2 c
Arith(a, op1, b, op2, c) ==
    <<"=">> \o NatToStr(a) \o <<op1>> \o NatToStr(b) \o <<op2>> \o NatToStr(c)

\* the text (a op1 b) op2 c
ArithLeft(a, op1, b, op2, c) ==
    <<"=", "(">> \o NatToStr(a) \o <<op1>> \o NatToStr(b) \o <<")", op2>> \o NatToStr(c)

\* the text a op1 (b op2 c)
ArithRight(a, op1, b, op2, c) ==
    <<"=">> \o NatToStr(a) \o <<op1, "(">> \o NatToStr(b) \o <<op2>> \o NatToStr(c) \o <<")">>

\* the operands of a/b*c and a/(b*c) whose quotients are integers
Divisible == {t \in Operands \X Operands \X Operands : t[1] % (t[2] * t[3]) = 0}

ArithTexts ==
    {Arith(a, "-", b, "+", c) : a \in Operands, b \in Operands, c \in Operands}
      \cup {ArithLeft(a, "-", b, "+", c) : a \in Operands, b \in Operands, c \in Operands}
      \cup {ArithRight(a, "-", b, "+", c) : a \in Operands, b \in Operands, c \in Operands}
      \cup {ArithRight(a, "*", b, "+", c) : a \in Operands, b \in Operands, c \in Operands}
      \cup {Arith(a, "+", b, "*", c) : a \in Operands, b \in Operands, c \in Operands}
      \cup {Arith(t[1], "/", t[2], "*", t[3]) : t \in Divisible}
      \cup {ArithRight(t[1], "/", t[2], "*", t[3]) : t \in Divisible}

\* formulas that fail: a division by zero, an unknown function, malformed syntax
FailingTexts ==
    {<<"=", "A", "1", "/", "0">>,
     <<"=", "F", "O", "O", "(", "A", "1", ")">>,
     <<"=", "A", "1", "+", "(">>,
     <<"=", "S", "U", "M", "(", "A", "1", ",", "B", "1", "/", "0", ")">>}

\* formulas over a range and over the same cells one by one
RangeTexts ==
    {<<"=", "S", "U", "M", "(", "A", "1", ":", "A", "3", ")">>,
     <<"=", "S", "U", "M", "(", "A", "1", ",", "A", "2", ",", "A", "3", ")">>}

FormulaTexts == ArithTexts \cup FailingTexts \cup RangeTexts

InitFormula == Constructed(RangeDoc, FALSE, DefaultMaxRetries)

NextFormula ==
    \E text \in FormulaTexts : calls < MaxFormulaCalls /\ UpdateCell(C1, text)

SpecFormula == InitFormula /\ [][NextFormula]_vars

(***************************************************************************)
(* The round-trip specification: the host serializes a list of sheets and  *)
(* parses the text.                                                        *)
(***************************************************************************)
\* the number of sheets of a list
MaxSheets == 2

\* the number of lists the host serializes
MaxParseCalls == 1

ParseIds == {Str(<<>>), Str(<<"S">>)}

ParseNames == {Str(<<>>), Str(<<"N">>)}

\* value objects: a number, a text, a formula with a style, a formula whose value is NaN
ParseValues ==
    {Literal(<<"1">>),
     Literal(<<"X">>),
     [v |-> Num(5), m |-> <<"5">>, f |-> <<"=", "2", "+", "3">>, calculated |-> TRUE,
      s |-> [fontWeight |-> "bold"]],
     [v |-> NaNValue, m |-> <<"N", "a", "N">>,
      f |-> <<"=", "R", "O", "U", "N", "D", "(", "1", ",", "4", "0", "0", ")">>,
      calculated |-> TRUE]}

ParseSheets ==
    {[id |-> id, name |-> name, celldata |-> celldata, formulas |-> formulas] :
        id \in ParseIds, name \in ParseNames,
        celldata \in {EmptyMap} \cup {MapSet(EmptyMap, A1, value) : value \in ParseValues},
        formulas \in {Undefined, AMap}}

SheetLists == UNION {[1..n -> ParseSheets] : n \in 0..MaxSheets}

\* SheetParser.parse(SheetParser.serialize(sheets))
RoundTrip(sheets) ==
    /\ Record([op |-> "parse", key |-> NoKey, sheets |-> sheets,
               parsed |-> parse(serializeSheets(sheets))])
    /\ calls' = calls + 1
    /\ UNCHANGED <<dm, schedVars, conflictVars>>

NextParse == \E sheets \in SheetLists : calls < MaxParseCalls /\ RoundTrip(sheets)

SpecParse == InitConflict /\ [][NextParse]_vars

(***************************************************************************)
(* The backup specification: the host edits, undoes and redoes, takes a    *)
(* backup and restores it.                                                 *)
(***************************************************************************)
\* the number of calls the host makes
MaxBackupCalls == 4

\* the cells the host edits and the texts it types
BackupKeys == {A1, C1}

BackupTexts == {<<"1", "0">>, <<"=", "A", "1">>}

InitBackup == Constructed(ExampleDoc, FALSE, DefaultMaxRetries)

NextBackup ==
    \/ \E key \in BackupKeys, text \in BackupTexts :
          calls < MaxBackupCalls /\ UpdateCell(key, text)
    \/ calls < MaxBackupCalls /\ Undo
    \/ calls < MaxBackupCalls /\ Redo
    \/ calls < MaxBackupCalls /\ CreateBackup
    \/ calls < MaxBackupCalls /\ RestoreFromBackup

SpecBackup == InitBackup /\ [][NextBackup]_vars

(***************************************************************************)
(* The validation specification: the host registers validation rules and   *)
(* edits.                                                                  *)
(***************************************************************************)
\* the number of rules the host registers for one cell
MaxRules == 2

\* the rules the host registers
Rules == {[type |-> "required", message |-> <<"R">>],
          [type |-> "number", message |-> <<"N">>]}

\* the texts the host types: blank, a number, not a number
ValidateTexts == {<<>>, <<"1", "0">>, <<"a", "b">>}

\* the cells the host addresses: A1 is loaded with a value, C1 is loaded empty
ValidateKeys == {A1, C1}

InitValidate == Constructed(ExampleDoc, FALSE, DefaultMaxRetries)

NextValidate ==
    \/ \E key \in ValidateKeys, rule \in Rules :
          /\ calls < MaxOps
          /\ Len(getValidationRules(dm, key)) < MaxRules
          /\ AddValidationRule(key, rule)
    \/ \E key \in ValidateKeys, text \in ValidateTexts : calls < MaxOps /\ UpdateCell(key, text)
    \/ calls < MaxOps /\ Undo
    \/ calls < MaxOps /\ Redo

SpecValidate == InitValidate /\ [][NextValidate]_vars

(***************************************************************************)
(* Claims about the computed values and the Formula Index.                 *)
(***************************************************************************)
HasFormula(cell) == cell # Null /\ "f" \in DOMAIN cell /\ cell.f # <<>>

SeqToSet(seq) == {seq[i] : i \in DOMAIN seq}

\* the cells a formula text reads, directly
DirectDeps(formula, celldata) == SeqToSet(parseFormula(formula, celldata).dependencies)

\* the cells reached from the set from through the formulas stored in the grid
RECURSIVE Closure(_, _)
Closure(from, celldata) ==
    LET more == UNION {DirectDeps(celldata[k].f, celldata) :
                          k \in {x \in from \cap DOMAIN celldata : HasFormula(celldata[x])}}
    IN  IF more \subseteq from THEN from ELSE Closure(from \cup more, celldata)

\* the cell at key holds a formula that reads, through formulas, the cell itself
OnCycle(key, celldata) ==
    /\ HasFormula(getCellAt(celldata, key))
    /\ key \in Closure(DirectDeps(celldata[key].f, celldata), celldata)

\* C1: after any sequence of updateCell calls every formula cell's stored computed
\* value is the result of evaluating its formula text against the current grid.
\* (Stated of the formula cells that are on no dependency cycle, which C3 is about.)
C1_ComputedValuesCurrent ==
    \A key \in DOMAIN dm.celldata :
        (HasFormula(dm.celldata[key]) /\ ~OnCycle(key, dm.celldata))
            => dm.celldata[key].v = parseFormula(dm.celldata[key].f, dm.celldata).value

\* C2: the dependency and dependent sets of the Formula Index are transposes of each
\* other.  (Stated of the edges between two cells that both have an entry in the
\* index: A lists B among its dependencies exactly if B lists A among its dependents.)
C2_IndexTransposed ==
    \A a \in DOMAIN dm.formulas, b \in DOMAIN dm.formulas :
        SeqContains(dm.formulas[a].dependencies, b) <=> SeqContains(dm.formulas[b].dependents, a)

\* the cells a formula written at key would read, through the formulas of the grid
WriteClosure(key, formula, celldata) ==
    Closure(DirectDeps(formula, celldata), MapDel(celldata, key))

\* C3: a formula write to a cell whose dependency closure contains the cell itself
\* leaves the cell content and the Formula Index as they were.
C3_CyclicWriteRejected ==
    [][(/\ IsCall("updateCell")
        /\ IsFormulaText(hist'[1].text)
        /\ hist'[1].key \in WriteClosure(hist'[1].key, hist'[1].text, dm.celldata))
       => (dm'.celldata = dm.celldata /\ dm'.formulas = dm.formulas)]_vars

(***************************************************************************)
(* Claims about undo and redo.                                             *)
(***************************************************************************)
\* the step is the call op, and the call before it was the call prev
IsCallAfter(op, prev) == IsCall(op) /\ hist # <<>> /\ hist[1].op = prev

\* C5: an undo() that immediately follows an updateCell restores the cell's displayed
\* value and its CellState.isModified to what they were before the edit.
C5_UndoRestores ==
    [][IsCallAfter("undo", "updateCell")
       => (/\ getCellValue(getCellAt(dm'.celldata, hist[1].key)) = hist[1].preDisplay
           /\ IsModifiedAt(dm', hist[1].key) = hist[1].preModified)]_vars

\* C6: updateCell; undo(); redo() leaves the cell's grid content and its CellState
\* (currentValue, isModified) equal to what they were right after the updateCell.
C6_RedoRestores ==
    [][(/\ IsCallAfter("redo", "undo")
        /\ Len(hist) = 2
        /\ hist[2].op = "updateCell")
       => (/\ getCellAt(dm'.celldata, hist[2].key) = hist[2].postCell
           /\ getCellState(dm', hist[2].key).currentValue = hist[2].postState.currentValue
           /\ getCellState(dm', hist[2].key).isModified = hist[2].postState.isModified)]_vars

(***************************************************************************)
(* Claims about saving.                                                    *)
(***************************************************************************)
\* C4: a cell edited while a save is in flight, to a content the save did not
\* serialize, is still reported as modified once that save has completed, and the
\* sheet is still dirty.
C4_EditDuringSaveKept ==
    [][IsCall("saveSucceeds")
       => \A key \in editedInFlight :
             getCellAt(dm.celldata, key) # getCellAt(Head(inFlight), key)
                => (IsModifiedAt(dm', key) /\ dm'.isDirty)]_vars

\* C7: the save callback is never invoked while an earlier invocation has not
\* completed, and isSaving is true exactly while an invocation is in flight.
C7_NoOverlappingSaves ==
    /\ Len(inFlight) <= 1
    /\ autoSaveState.isSaving <=> inFlight # <<>>

\* a trigger arrived while the sheet was dirty and a save was in flight, and it did
\* not invoke the save callback
C7_TriggerWhileSaving ==
    /\ lastTrigger.dirty
    /\ lastTrigger.saving
    /\ ~lastTrigger.invoked
    /\ inFlight # <<>>

\* the debounce timers that are pending
PendingDebounce(tm) == {h \in DOMAIN tm : tm[h].kind = "debounce"}

\* C9 as the specification words it: at most one debounce timer is pending, and the
\* debounce trigger comes debounceMs after the last edit and invokes the save callback.
C9_DebounceInvokesOnce ==
    [][/\ Cardinality(PendingDebounce(timers')) <= 1
       /\ IsCall("debounce")
            => (now = lastEdit.at + DebounceTicks /\ lastTrigger'.invoked)]_vars

\* C9: at most one debounce timer is pending, and the debounce trigger comes debounceMs
\* after the last edit and invokes the save callback exactly if the sheet is dirty and
\* no save is in flight at that moment.
C9_DebounceFiresOnce ==
    [][/\ Cardinality(PendingDebounce(timers')) <= 1
       /\ IsCall("debounce")
            => (/\ now = lastEdit.at + DebounceTicks
                /\ lastTrigger'.invoked <=> (dm.isDirty /\ ~autoSaveState.isSaving))]_vars

\* the debounce trigger of a burst of two edits has invoked the save callback
C9_BurstSaved ==
    /\ hist # <<>>
    /\ hist[1].op = "debounce"
    /\ lastTrigger.invoked
    /\ lastEdit.burst = 2
    /\ now = lastEdit.at + DebounceTicks

\* the retry delay the specification gives for a retry count
BackoffMs(retryCount) == Min(1000 * (2 ^ retryCount), 10000)

\* C10 as the specification words it: each delay is min(1000 * 2^retryCount, 10000),
\* and the delays of a run of failures are strictly increasing.
C10_StrictlyIncreasing ==
    /\ \A i \in DOMAIN retryDelays : retryDelays[i].delay = BackoffMs(retryDelays[i].retryCount)
    /\ \A i \in 1..(Len(retryDelays) - 1) : retryDelays[i].delay < retryDelays[i + 1].delay

\* C10: each delay is min(1000 * 2^retryCount, 10000), and the delays of a run of
\* failures never decrease and are strictly increasing below the cap of 10000 ms.
C10_IncreasingToCap ==
    /\ \A i \in DOMAIN retryDelays : retryDelays[i].delay = BackoffMs(retryDelays[i].retryCount)
    /\ \A i \in 1..(Len(retryDelays) - 1) :
          /\ retryDelays[i].delay <= retryDelays[i + 1].delay
          /\ retryDelays[i + 1].delay < MaxRetryDelayMs
                => retryDelays[i].delay < retryDelays[i + 1].delay

\* a run of failures has scheduled a retry at the cap
C10_CapReached ==
    /\ Len(retryDelays) >= 4
    /\ retryDelays[Len(retryDelays)].delay = MaxRetryDelayMs

(***************************************************************************)
(* Claims about conflict detection.                                        *)
(***************************************************************************)
\* the conflicted cells a call of detectConflicts reported
Reported(detect) == IF detect.result = Null THEN {} ELSE detect.result.conflictedCells

\* C8: detectConflicts reports exactly one conflicted cell, carrying local L, remote R
\* and base B, for a cell with baseline B, a local unsaved edit L # B and a remote
\* value R that differs from both; it reports none for a cell whose remote value is
\* B, or that is not locally modified.
C8_ThreeWayConflict ==
    [][IsCall("detectConflicts")
       => \A key \in Keys :
            LET modified == IsModifiedAt(dm, key)
                B        == getCellState(dm, key).originalValue
                L        == getCellState(dm, key).currentValue
                R        == getCellAt(lastDetect'.remote, key)
                found    == {c \in Reported(lastDetect') : c.key = key}
            IN  /\ (modified /\ L # B /\ R # B /\ R # L)
                     => found = {[key |-> key, localValue |-> L,
                                  remoteValue |-> R, baseValue |-> B]}
                /\ (~modified \/ R = B) => found = {}]_vars

(***************************************************************************)
(* Claims about retries.                                                   *)
(***************************************************************************)
\* the retries are exhausted: the last save failed with retryCount at maxRetries or above
RetriesExhausted ==
    /\ autoSaveState.lastError
    /\ ~autoSaveState.isSaving
    /\ autoSaveState.retryCount >= autoSaveConfig.maxRetries

\* the step invokes the save callback
Invokes == Len(inFlight') > Len(inFlight)

\* C11: a failure schedules a retry exactly if the incremented retryCount is below
\* maxRetries; once the retries are exhausted the save callback is invoked only by
\* the periodic timer, the debounce timer or forceAutoSave, and lastError stays set
\* until such an invocation.
C11_RetriesStopWhenExhausted ==
    [][/\ IsCall("saveFails")
            => /\ autoSaveState'.lastError
               /\ (nextHandle' # nextHandle /\ timers'[nextHandle].kind = "retry")
                     <=> autoSaveState'.retryCount < autoSaveConfig.maxRetries
       /\ RetriesExhausted
            => /\ Invokes => hist'[1].op \in {"intervalFire", "debounce", "forceAutoSave"}
               /\ ~Invokes => autoSaveState'.lastError]_vars

(***************************************************************************)
(* Claims about validation.                                                *)
(***************************************************************************)
\* C12: updateCell with a text that fails a validation rule registered for the cell
\* returns failure and leaves the grid, the Formula Index, the undo and redo stacks
\* and the dirty flag unchanged; the cell's CellState is marked invalid with the
\* messages of the failing rules joined.
C12_InvalidEditRejected ==
    [][(/\ IsCall("updateCell")
        /\ ~validateCell(hist'[1].text, getValidationRules(dm, hist'[1].key)).isValid)
       => /\ ~hist'[1].ok
          /\ dm'.celldata = dm.celldata
          /\ dm'.formulas = dm.formulas
          /\ dm'.undoStack = dm.undoStack
          /\ dm'.redoStack = dm.redoStack
          /\ dm'.isDirty = dm.isDirty
          /\ hist'[1].postState # Null
          /\ ~hist'[1].postState.isValid
          /\ hist'[1].postState.validationError =
               Str(Join(FailedMessages(hist'[1].text, getValidationRules(dm, hist'[1].key)),
                        <<",", " ">>))]_vars

(***************************************************************************)
(* Claims about the undo and redo stacks.                                  *)
(***************************************************************************)
\* C13: the undo stack holds at most maxUndoSteps actions; a successful updateCell
\* pushes its action on top, and with the stack full it evicts the oldest action and
\* keeps the others in order.
C13_UndoStackBounded ==
    [][/\ Len(dm'.undoStack) <= dm'.maxUndoSteps
       /\ (IsCall("updateCell") /\ hist'[1].ok)
            => /\ dm'.undoStack # <<>>
               /\ SubSeq(dm'.undoStack, 1, Len(dm'.undoStack) - 1)
                    = IF Len(dm.undoStack) = dm.maxUndoSteps
                      THEN Tail(dm.undoStack) ELSE dm.undoStack
               /\ dm'.undoStack[Len(dm'.undoStack)].key = hist'[1].key
               /\ dm'.undoStack[Len(dm'.undoStack)].oldValue = hist'[1].preCell]_vars

\* an updateCell pushed its action on a full undo stack, and the oldest was evicted
C13_OldestEvicted ==
    /\ hist # <<>>
    /\ hist[1].op = "updateCell"
    /\ hist[1].ok
    /\ Len(hist[1].preUndo) = MaxUndoSteps
    /\ Len(dm.undoStack) = MaxUndoSteps
    /\ dm.undoStack[1] = hist[1].preUndo[2]

\* DataManager.canRedo
canRedo(e) == Len(e.redoStack) > 0

\* C14: every successful updateCell empties the redo stack: right after it canRedo()
\* is false.
C14_EditClearsRedo ==
    [][(IsCall("updateCell") /\ hist'[1].ok) => ~canRedo(dm')]_vars

\* an updateCell came with actions on the redo stack, and emptied it
C14_RedoDropped ==
    /\ hist # <<>>
    /\ hist[1].op = "updateCell"
    /\ hist[1].ok
    /\ hist[1].preRedo # <<>>
    /\ ~canRedo(dm)

C15_MarkCleanResets ==
    [][IsCall("markClean")
       => /\ \A key \in DOMAIN dm'.cellStates :
                /\ dm'.cellStates[key].originalValue = dm'.cellStates[key].currentValue
                /\ ~dm'.cellStates[key].isModified
          /\ ~dm'.isDirty
          /\ getModifiedCells(dm'.cellStates) = {}]_vars

\* markClean came right after an edit that had left its cell modified, and made the
\* edited value the cell's baseline
C15_EditBecameBaseline ==
    /\ Len(hist) = 2
    /\ hist[1].op = "markClean"
    /\ hist[2].op = "updateCell"
    /\ hist[2].postState.isModified
    /\ dm.cellStates[hist[2].key].originalValue = hist[2].postState.currentValue
    /\ dm.cellStates[hist[2].key].originalValue # hist[2].postState.originalValue
    /\ ~dm.isDirty

(***************************************************************************)
(* Claims about the dirtiness of a cell.                                   *)
(***************************************************************************)
\* an undo that finds the CellState of its cell leaves it clean exactly if its value
\* is its originalValue again, and leaves the sheet dirty exactly if a cell is modified
UndoByEquality ==
    (IsCall("undo") /\ hist'[1].postState # Null)
       => /\ hist'[1].postState.isModified
               <=> hist'[1].postState.currentValue # hist'[1].postState.originalValue
          /\ dm'.isDirty <=> getModifiedCells(dm'.cellStates) # {}

Pending(tm, kind) == {h \in DOMAIN tm : tm[h].kind = kind}

\* the step is a timer that fires
TimerFires == IsCall("intervalFire") \/ IsCall("debounce") \/ IsCall("retry")

\* C18: after enableAutoSave(false) the periodic and the debounce timer are cancelled,
\* and no timer invokes the save callback until auto-save is enabled again;
\* enableAutoSave(true) restarts the periodic timer only.
C18_DisabledStaysSilent ==
    [][/\ IsCall("disableAutoSave")
            => Pending(timers', "interval") = {} /\ Pending(timers', "debounce") = {}
       /\ (TimerFires /\ ~autoSaveConfig.enabled) => ~Invokes
       /\ IsCall("enableAutoSave")
            => /\ Pending(timers', "debounce") = Pending(timers, "debounce")
               /\ Pending(timers', "retry") = Pending(timers, "retry")
               /\ autoSaveTimer' \in Pending(timers', "interval")]_vars

\* C19: after destroy no periodic, debounce or retry timer is pending, so that the
\* engine does not invoke the save callback again.
C19_DestroyCancelsTimers ==
    [][IsCall("destroy") => timers' = EmptyMap]_vars

(***************************************************************************)
(* Claims about the resolution of a conflict.                              *)
(***************************************************************************)
\* resolveConflicts(resolvedCells) is the step, and updateCell has accepted every
\* resolved cell and added an undo action for it
AppliesEvery(resolvedCells) ==
    /\ Len(resolveConflicts(dm, conflict, resolvedCells).edited) = Len(resolvedCells)
    /\ Len(dm'.undoStack) = Min(MaxUndoSteps, Len(dm.undoStack) + Len(resolvedCells))
    /\ dm'.redoStack = <<>>

\* C20: with a conflict active resolveConflicts applies every resolved cell through
\* updateCell, each adding an undo action, and clears the ConflictInfo, so that
\* hasActiveConflicts is false; with no conflict active it returns false and changes
\* nothing.
C20_ResolveAppliesEvery ==
    [][\A resolvedCells \in Resolutions :
          ResolveConflicts(resolvedCells)
            => IF hasActiveConflicts(conflict)
               THEN /\ hist'[1].ok
                    /\ ~hasActiveConflicts(conflict')
                    /\ AppliesEvery(resolvedCells)
               ELSE /\ ~hist'[1].ok
                    /\ dm' = dm /\ conflict' = conflict /\ timers' = timers]_vars

\* the logical content of a cell: its value and its formula
Content(cell) ==
    IF cell = Null THEN Null
    ELSE [v |-> cell.v, f |-> IF "f" \in DOMAIN cell THEN Str(cell.f) ELSE Null]

\* C21: resolving with keep-local leaves every conflicted cell with the local value
\* it had before the resolution, and resolving with keep-remote leaves it with the
\* remote value, whatever the kind of the value (text, number, formula, empty).
C21_ResolutionKeepsSide ==
    [][\A side \in {"local", "remote"} :
          (/\ hasActiveConflicts(conflict)
           /\ ResolveConflicts(ResolvedCells(conflict.conflictInfo, side)))
            => \A c \in conflict.conflictInfo.conflictedCells :
                  Content(getCellAt(dm'.celldata, c.key))
                    = Content(IF side = "local" THEN getCellAt(dm.celldata, c.key)
                              ELSE c.remoteValue)]_vars

\* C22: while a ConflictInfo is active no timer of the auto-save scheduler invokes the
\* save callback.
C22_NoSaveDuringConflict ==
    [][(hasActiveConflicts(conflict) /\ TimerFires) => ~Invokes]_vars

(***************************************************************************)
(* Claims about the evaluation of formulas.                                *)
(***************************************************************************)
\* C23: a formula that fails to evaluate yields the value #ERROR!, and the
\* dependencies updateCell registers for it are the references read before the
\* failure.
C23_FailureKeepsDependencies ==
    [][\A text \in FormulaTexts :
          (/\ IsCall("updateCell")
           /\ hist'[1].text = text
           /\ ~evaluateExpression(Tail(text), dm.celldata).ok)
            => /\ hist'[1].postCell.v = Str(ErrorText)
               /\ dm'.formulas[hist'[1].key].dependencies
                    = evaluateExpression(Tail(text), dm.celldata).deps]_vars

\* the cells of the rectangle from first to last in row-major order
Rectangle(first, last) ==
    [i \in 1..((last[1] - first[1] + 1) * (last[2] - first[2] + 1)) |->
        getCellKey(first[1] + ((i - 1) \div (last[2] - first[2] + 1)),
                   first[2] + ((i - 1) % (last[2] - first[2] + 1)))]

\* the numeric coercions of the cells keys, added up
RECURSIVE SumOfCells(_, _)
SumOfCells(celldata, keys) ==
    IF keys = <<>> THEN 0
    ELSE toNumber(Str(getCellValue(getCellAt(celldata, Head(keys)))))
           + SumOfCells(celldata, Tail(keys))

\* C24: SUM over the range A1:A3 is the sum of the numeric coercions of the cells of
\* the rectangle, a cell that holds no number counting as 0, and every cell of the
\* rectangle is a dependency of the formula, in row-major order.
C24_SumOverRange ==
    [][(/\ IsCall("updateCell")
        /\ hist'[1].text = <<"=", "S", "U", "M", "(", "A", "1", ":", "A", "3", ")">>)
         => /\ hist'[1].postCell.v
                 = Num(SumOfCells(dm.celldata, Rectangle(A1, getCellKey(2, 0))))
            /\ dm'.formulas[hist'[1].key].dependencies
                 = Rectangle(A1, getCellKey(2, 0))]_vars

\* the value of the cell a call of updateCell has written
Computed == hist'[1].postCell.v

\* the call is updateCell with the text text
Typed(text) == IsCall("updateCell") /\ hist'[1].text = text

\* C30: the operators * and / bind tighter than + and -, operators of one tier are
\* applied from left to right, and parentheses override both rules: a-b+c is
\* (a-b)+c, a/b*c is (a/b)*c, a+b*c is a+(b*c), and a parenthesised operation is
\* evaluated first.
C30_ArithmeticPrecedence ==
    [][/\ \A a \in Operands, b \in Operands, c \in Operands :
            /\ Typed(Arith(a, "-", b, "+", c)) => Computed = Num((a - b) + c)
            /\ Typed(Arith(a, "+", b, "*", c)) => Computed = Num(a + (b * c))
            /\ Typed(ArithLeft(a, "-", b, "+", c)) => Computed = Num((a - b) + c)
            /\ Typed(ArithRight(a, "-", b, "+", c)) => Computed = Num(a - (b + c))
            /\ Typed(ArithRight(a, "*", b, "+", c)) => Computed = Num(a * (b + c))
       /\ \A t \in Divisible :
            /\ Typed(Arith(t[1], "/", t[2], "*", t[3]))
                 => Computed = Num((t[1] \div t[2]) * t[3])
            /\ Typed(ArithRight(t[1], "/", t[2], "*", t[3]))
                 => Computed = Num(t[1] \div (t[2] * t[3]))]_vars

(***************************************************************************)
(* Claims about the persisted format.                                      *)
(***************************************************************************)
\* the sheets of two lists have the same ids, names and cells
SameSheets(sheets, parsed) ==
    /\ Len(parsed) = Len(sheets)
    /\ \A i \in DOMAIN sheets :
          /\ parsed[i].id = sheets[i].id
          /\ parsed[i].name = sheets[i].name
          /\ parsed[i].celldata = sheets[i].celldata

\* the sheets are such as parse yields: ids and names are not empty, and the scalars
\* are strings and finite numbers
Parsed(sheets) ==
    \A i \in DOMAIN sheets :
       /\ ~Falsy(sheets[i].id)
       /\ ~Falsy(sheets[i].name)
       /\ \A k \in DOMAIN sheets[i].celldata : sheets[i].celldata[k].v # NaNValue

\* C25 as stated: for every list of sheets, parse(serialize(sheets)) has the same
\* ids, names and cells.
C25_RoundTrip ==
    (hist # <<>> /\ hist[1].op = "parse") => SameSheets(hist[1].sheets, hist[1].parsed)

\* C25: for every list of sheets such as parse yields, parse(serialize(sheets)) has
\* the same ids, names and cells.
C25_RoundTripOfParsed ==
    (hist # <<>> /\ hist[1].op = "parse" /\ Parsed(hist[1].sheets))
       => SameSheets(hist[1].sheets, hist[1].parsed)

\* two sheets, one with a formula cell, were serialized and parsed
C25_TwoSheetsParsed ==
    /\ hist # <<>>
    /\ hist[1].op = "parse"
    /\ Parsed(hist[1].sheets)
    /\ Len(hist[1].parsed) = 2
    /\ \E i \in 1..2 : /\ A1 \in DOMAIN hist[1].parsed[i].celldata
                       /\ "f" \in DOMAIN hist[1].parsed[i].celldata[A1]
                       /\ hist[1].sheets[i].formulas = AMap
                       /\ "formulas" \notin DOMAIN hist[1].parsed[i]

\* C26: restoreFromBackup of a text createBackup returned leaves the cells, every
\* CellState and the undo stack as they were when the backup was taken, and an empty
\* redo stack; after it the engine goes on accepting updateCell.
C26_RestoreIsFullState ==
    [][/\ IsCall("restoreFromBackup")
            => /\ dm'.celldata = backup.taken.celldata
               /\ dm'.cellStates = backup.taken.cellStates
               /\ dm'.undoStack = backup.taken.undoStack
               /\ dm'.redoStack = <<>>
       /\ IsCall("updateCell") => ~hist'[1].threw]_vars

(***************************************************************************)
(* The recalculation specification: the DataManager is constructed on a    *)
(* document whose formulas form a diamond or a cycle, and the host edits   *)
(* its cells.                                                              *)
(***************************************************************************)
\* number of edits of one run
MaxRecalcCalls == 3

FormulaCellOf(text, value) ==
    [v |-> value, m |-> JsString(value), f |-> text, calculated |-> TRUE]

\* A1 = 2, B1 = A1, C1 = A1 + B1
DiamondDoc ==
    MapSet(MapSet(MapSet(EmptyMap, A1, Literal(<<"2">>)),
                  B1, FormulaCellOf(<<"=", "A", "1">>, Num(2))),
           C1, FormulaCellOf(<<"=", "A", "1", "+", "B", "1">>, Num(4)))

\* the same with the formula =2 in A1
DiamondOfFormulasDoc == MapSet(DiamondDoc, A1, FormulaCellOf(<<"=", "2">>, Num(2)))

\* A1 = B1, B1 = A1, C1 = A1 + B1
CycleDoc ==
    MapSet(MapSet(MapSet(EmptyMap, A1, FormulaCellOf(<<"=", "B", "1">>, Num(0))),
                  B1, FormulaCellOf(<<"=", "A", "1">>, Num(0))),
           C1, FormulaCellOf(<<"=", "A", "1", "+", "B", "1">>, Num(0)))

RecalcDocs == {DiamondDoc, DiamondOfFormulasDoc, CycleDoc}

RecalcTexts == { <<"1", "0">>,
                 <<"=", "3">>,
                 <<"=", "A", "1">>,
                 <<"=", "C", "1">>,
                 <<"=", "A", "1", "+", "B", "1">> }

InitRecalc == \E doc \in RecalcDocs : Constructed(doc, FALSE, DefaultMaxRetries)

NextRecalc ==
    \E key \in Keys, text \in RecalcTexts : calls < MaxRecalcCalls /\ UpdateCell(key, text)

SpecRecalc == InitRecalc /\ [][NextRecalc]_vars

(***************************************************************************)
(* Claims about the propagation of a recalculation.                        *)
(***************************************************************************)
\* the keys of seq are pairwise different
NoRepeat(seq) == \A i, j \in 1..Len(seq) : seq[i] = seq[j] => i = j

\* the formulas hold a dependency cycle
HasCycle(formulas) ==
    \E k \in DOMAIN formulas : SeqContains(recalculationOrder(formulas, k), k)

\* C28: the propagation of recalculateDependents ends from every cell of every
\* dependency graph, a graph with a cycle included, and evaluates no formula cell
\* twice in one pass.
C28_EachFormulaAtMostOnce ==
    \A key \in Keys :
        LET order == recalculationOrder(dm.formulas, key)
        IN  /\ NoRepeat(order)
            /\ SeqToSet(order) \subseteq DOMAIN dm.formulas
            /\ Len(order) <= Cardinality(DOMAIN dm.formulas)

\* the last edit wrote a formula that reads its own cell into a graph that already
\* held a cycle of two cells, and its pass evaluated the written cell once
C28_PassOverCycle ==
    /\ hist # <<>>
    /\ hist[1].op = "updateCell"
    /\ hist[1].ok
    /\ hist[1].key = C1
    /\ recalculationOrder(dm.formulas, C1) = <<C1>>
    /\ recalculationOrder(dm.formulas, A1) = <<B1, A1>>

\* B1 holds =A1 and C1 holds =A1+B1
Diamond(formulas) ==
    /\ B1 \in DOMAIN formulas
    /\ C1 \in DOMAIN formulas
    /\ formulas[B1].formula = <<"=", "A", "1">>
    /\ formulas[C1].formula = <<"=", "A", "1", "+", "B", "1">>

\* the value stored in the formula cell key is the value of its formula over the grid
UpToDate(e, key) ==
    /\ getCellAt(e.celldata, key) # Null
    /\ getCellAt(e.celldata, key).v = parseFormula(e.formulas[key].formula, e.celldata).value

\* C29: in a diamond (B1 = A1, C1 = A1 + B1) a write to A1 leaves in C1 the value of
\* its formula over the final grid, B1 holding its new value, whatever the order in
\* which B1 and C1 were registered as dependents of A1.
C29_DiamondUpToDate ==
    [][(/\ IsCall("updateCell")
        /\ hist'[1].ok
        /\ hist'[1].key = A1
        /\ Diamond(dm'.formulas))
          => /\ UpToDate(dm', B1)
             /\ UpToDate(dm', C1)]_vars

(***************************************************************************)
(* Claims about the lifetime of a conflict.                                *)
(***************************************************************************)
\* C27: when detectConflicts reports no conflict it returns null and adopts the
\* checksum and the modification time of the content it was given as the baseline;
\* when it reports a conflict the ConflictInfo is active from then until a call of
\* resolveConflicts clears it, and no other step sets or clears it.
C27_ConflictLifetime ==
    [][/\ IsCall("detectConflicts")
            => \A fileModifiedTime \in ModifiedTimes :
                 DetectConflicts(lastDetect'.remote, fileModifiedTime)
              => IF lastDetect'.result = Null
                 THEN /\ conflict'.lastFileChecksum
                           = generateFileChecksum(serialize(lastDetect'.remote))
                      /\ conflict'.lastFileModified
                           = (IF fileModifiedTime # Null THEN fileModifiedTime ELSE Num(now))
                      /\ conflict'.conflictInfo = conflict.conflictInfo
                 ELSE /\ conflict'.conflictInfo = lastDetect'.result
                      /\ hasActiveConflicts(conflict')
       /\ (~hasActiveConflicts(conflict) /\ hasActiveConflicts(conflict'))
            => IsCall("detectConflicts") /\ lastDetect'.result # Null
       /\ (hasActiveConflicts(conflict) /\ ~hasActiveConflicts(conflict'))
            => IsCall("resolveConflicts") /\ hist'[1].ok]_vars

\* a conflict was reported, stayed active over a detection that found none, and was
\* cleared by resolveConflicts
C27_ReportedThenResolved ==
    /\ Len(hist) = 2
    /\ hist[1].op = "resolveConflicts"
    /\ hist[1].ok
    /\ hist[2].op = "detectConflicts"
    /\ lastDetect # Null
    /\ lastDetect.result = Null
    /\ conflict.lastFileChecksum = generateFileChecksum(serialize(lastDetect.remote))
    /\ ~hasActiveConflicts(conflict)

(***************************************************************************)
(* The column specification: the host converts a column index to letters,  *)
(* letters to a column index, and parses a reference.                      *)
(***************************************************************************)
\* the largest column index converted
MaxColumnIndex == 730

\* the largest number of letters of a column
MaxLetters == 2

\* the largest row number of a reference
MaxRefRow == 12

\* the number of conversions of one run
MaxColumnCalls == 1

UpperSet == {UpperChars[i] : i \in DOMAIN UpperChars}

ColumnTexts == UNION {[1..n -> UpperSet] : n \in 1..MaxLetters}

RefTexts == {letters \o NatToStr(row) :
                letters \in {<<"A">>, <<"Z">>, <<"A", "A">>, <<"B", "C">>},
                row \in 1..MaxRefRow}

\* FormulaEngine.indexToColumn(index)
IndexToColumn(index) ==
    /\ Record([op |-> "indexToColumn", key |-> NoKey, index |-> index,
               result |-> indexToColumn(index)])
    /\ calls' = calls + 1
    /\ UNCHANGED <<dm, schedVars, conflictVars>>

\* FormulaEngine.parseCellReference(letters + "1"), the column of the reference
ColumnToIndex(letters) ==
    /\ Record([op |-> "columnToIndex", key |-> NoKey, letters |-> letters,
               result |-> parseCellReference(letters \o <<"1">>)[2]])
    /\ calls' = calls + 1
    /\ UNCHANGED <<dm, schedVars, conflictVars>>

\* FormulaEngine.parseCellReference(ref)
ParseCellReference(ref) ==
    /\ IsCellRefText(ref)
    /\ Record([op |-> "parseCellReference", key |-> NoKey, ref |-> ref,
               result |-> parseCellReference(ref)])
    /\ calls' = calls + 1
    /\ UNCHANGED <<dm, schedVars, conflictVars>>

NextColumn ==
    \/ \E index \in 0..MaxColumnIndex : calls < MaxColumnCalls /\ IndexToColumn(index)
    \/ \E letters \in ColumnTexts : calls < MaxColumnCalls /\ ColumnToIndex(letters)
    \/ \E ref \in RefTexts : calls < MaxColumnCalls /\ ParseCellReference(ref)

SpecColumn == InitConflict /\ [][NextColumn]_vars

(***************************************************************************)
(* Claims about the column letters.                                        *)
(***************************************************************************)
\* C31: the column letters are a bijective base-26 numeral: columnToIndex undoes
\* indexToColumn on every index, indexToColumn undoes columnToIndex on every string of
\* capital letters, A is 0, Z is 25, AA is 26, and the row number n of a reference
\* is decoded to the row n - 1.
C31_ColumnLettersBijective ==
    hist # <<>> =>
      /\ hist[1].op = "indexToColumn"
           => /\ columnToIndex(hist[1].result) = hist[1].index
              /\ hist[1].index = 0 => hist[1].result = <<"A">>
              /\ hist[1].index = 25 => hist[1].result = <<"Z">>
              /\ hist[1].index = 26 => hist[1].result = <<"A", "A">>
      /\ hist[1].op = "columnToIndex"
           => /\ indexToColumn(hist[1].result) = hist[1].letters
              /\ hist[1].letters = <<"A">> => hist[1].result = 0
              /\ hist[1].letters = <<"Z">> => hist[1].result = 25
              /\ hist[1].letters = <<"A", "A">> => hist[1].result = 26
      /\ hist[1].op = "parseCellReference"
           => /\ hist[1].result[1] >= 0
              /\ indexToColumn(hist[1].result[2]) \o NatToStr(hist[1].result[1] + 1)
                   = hist[1].ref
              /\ hist[1].ref = <<"A", "1">> => hist[1].result = <<0, 0>>

\* the index 26 was converted to AA
C31_FirstTwoLetterColumn ==
    /\ hist # <<>>
    /\ hist[1].op = "indexToColumn"
    /\ hist[1].index = 26
    /\ hist[1].result = <<"A", "A">>
    /\ columnToIndex(hist[1].result) = 26

(***************************************************************************)
(* The grid specification: the host builds the display grid of a cell set. *)
(***************************************************************************)
\* the largest row of a cell of the cell sets
MaxGridRow == 2

\* the largest column of a cell of the cell sets
MaxGridCol == 1

\* the number of grids the host builds
MaxGridCalls == 1

GridKeys == {getCellKey(r, c) : r \in 0..MaxGridRow, c \in 0..MaxGridCol}

\* a text, a number without display text, a blank display text, an empty cell
GridValues == {[v |-> Str(<<"X">>), m |-> <<"X">>],
               [v |-> Num(0)],
               [v |-> Str(<<" ">>), m |-> <<" ">>],
               [v |-> Str(<<>>), m |-> <<>>]}

GridDocs == UNION {[keys -> GridValues] : keys \in SUBSET GridKeys}

\* SheetParser.createGrid(celldata)
CreateGrid(celldata) ==
    /\ Record([op |-> "createGrid", key |-> NoKey, celldata |-> celldata,
               result |-> createGrid(celldata)])
    /\ calls' = calls + 1
    /\ UNCHANGED <<dm, schedVars, conflictVars>>

NextGrid == \E celldata \in GridDocs : calls < MaxGridCalls /\ CreateGrid(celldata)

SpecGrid == InitConflict /\ [][NextGrid]_vars

(***************************************************************************)
(* Claims about the display grid.                                          *)
(***************************************************************************)
StrictlyIncreasing(seq) == \A i, j \in 1..Len(seq) : i < j => seq[i] < seq[j]

\* the cells of a cell set whose display value is not blank
NonBlank(celldata) == {k \in DOMAIN celldata : Trim(getCellValue(celldata[k])) # <<>>}

\* C32: rowMap and colMap of createGrid are the strictly increasing lists of exactly
\* the rows and the columns that hold a cell with a non-blank display value, and
\* grid[i][j] is the value stored at (rowMap[i], colMap[j]), null when none is stored.
C32_GridIsCompact ==
    (hist # <<>> /\ hist[1].op = "createGrid") =>
      LET celldata == hist[1].celldata
          result   == hist[1].result
      IN  /\ StrictlyIncreasing(result.rowMap)
          /\ StrictlyIncreasing(result.colMap)
          /\ SeqToSet(result.rowMap) = {k[1] : k \in NonBlank(celldata)}
          /\ SeqToSet(result.colMap) = {k[2] : k \in NonBlank(celldata)}
          /\ DOMAIN result.grid = 1..Len(result.rowMap)
          /\ \A i \in 1..Len(result.rowMap) :
                /\ DOMAIN result.grid[i] = 1..Len(result.colMap)
                /\ \A j \in 1..Len(result.colMap) :
                      result.grid[i][j]
                        = MapGet(celldata, getCellKey(result.rowMap[i], result.colMap[j]))

\* a grid was built of a cell set with a blank row between two rows with content, a
\* blank stored cell and a position without a cell in the kept rows
C32_BlankRowDropped ==
    /\ hist # <<>>
    /\ hist[1].op = "createGrid"
    /\ hist[1].result.rowMap = <<0, 2>>
    /\ hist[1].result.colMap = <<0, 1>>
    /\ getCellKey(1, 0) \in DOMAIN hist[1].celldata
    /\ hist[1].result.grid[1][2] = Null
    /\ hist[1].result.grid[2][1] = [v |-> Str(<<>>), m |-> <<>>]

(***************************************************************************)
(* The merge specification: the host edits A1, checks the backing file and *)
(* resolves the conflict with the merge strategy.                          *)
(***************************************************************************)
\* the number of calls the host makes
MaxMergeCalls == 4

\* the texts the host types: two texts, a number, a formula, nothing
MergeTexts == {<<"X">>, <<"X", "Y">>, <<"7">>, <<"=", "B", "1">>, <<>>}

\* the documents the backing file holds: A1 = "Y", A1 = "XY", A1 = 0, no A1
MergeRemotes ==
    {MapSet(EmptyMap, A1, Literal(<<"Y">>)),
     MapSet(EmptyMap, A1, Literal(<<"X", "Y">>)),
     MapSet(EmptyMap, A1, Literal(<<"0">>)),
     MapSet(EmptyMap, B1, Literal(<<"3">>))}

NextMerge ==
    \/ \E text \in MergeTexts : calls < MaxMergeCalls /\ UpdateCell(A1, text)
    \/ \E remote \in MergeRemotes :
          calls < MaxMergeCalls /\ DetectConflicts(remote, Null)
    \/ /\ calls < MaxMergeCalls
       /\ hasActiveConflicts(conflict)
       /\ ResolveConflicts(createMergeResolution(conflict.conflictInfo))

SpecMerge == InitConflict /\ [][NextMerge]_vars

(***************************************************************************)
(* Claims about the merge strategy.                                        *)
(***************************************************************************)
\* the string form of a side of a conflict, empty for no value
StringForm(cellValue) == IF cellValue = Null THEN <<>> ELSE getCellValueDisplay(cellValue)

\* the side the merge strategy is to take of a conflicted cell whose sides are not to
\* be concatenated
SideToTake(cell) ==
    LET localStr  == StringForm(cell.localValue)
        remoteStr == StringForm(cell.remoteValue)
    IN  IF localStr = <<>> THEN cell.remoteValue
        ELSE IF remoteStr = <<>> THEN cell.localValue
        ELSE IF Len(localStr) >= Len(remoteStr) THEN cell.localValue
        ELSE cell.remoteValue

\* the sides of a conflicted cell are to be concatenated
ToConcatenate(cell) ==
    LET localStr  == StringForm(cell.localValue)
        remoteStr == StringForm(cell.remoteValue)
    IN  /\ localStr # <<>>
        /\ remoteStr # <<>>
        /\ ~Includes(localStr, remoteStr)
        /\ ~Includes(remoteStr, localStr)

\* a resolved cell carries a flag for manual review
FlaggedForReview(resolvedCell) ==
    /\ "manualReview" \in DOMAIN resolvedCell
    /\ resolvedCell.manualReview

\* C33: the merge strategy resolves a conflicted cell to its non-empty side when one
\* side is empty, to the side with the longer string form when one string form is
\* part of the other, and otherwise to the two string forms joined by a separator,
\* the cell being flagged for manual review.
C33_MergePerCell ==
    [][(/\ hasActiveConflicts(conflict)
        /\ ResolveConflicts(createMergeResolution(conflict.conflictInfo)))
          => \A c \in conflict.conflictInfo.conflictedCells :
                Let(MergeCell(c), LAMBDA resolved :
                  IF ToConcatenate(c)
                  THEN /\ resolved.resolvedValue.v
                            = Str(StringForm(c.localValue) \o <<" ", "|", " ">>
                                    \o StringForm(c.remoteValue))
                       /\ Content(getCellAt(dm'.celldata, c.key))
                            = Content(resolved.resolvedValue)
                       /\ FlaggedForReview(resolved)
                  ELSE /\ resolved.resolvedValue = SideToTake(c)
                       /\ Content(getCellAt(dm'.celldata, c.key))
                            = Content(IF SideToTake(c) = c.localValue
                                      THEN getCellAt(dm.celldata, c.key)
                                      ELSE c.remoteValue))]_vars

(***************************************************************************)
(* Claims about the dirty flag.                                            *)
(***************************************************************************)
\* C34: after every sequence of updateCell, undo, redo, markClean and
\* restoreFromBackup calls isDirty() is true exactly when some CellState has
\* isModified true.
C34_DirtyIffModified ==
    dm.isDirty <=> (\E k \in DOMAIN dm.cellStates : dm.cellStates[k].isModified)

(***************************************************************************)
(* Claims about the periodic timer.                                        *)
(***************************************************************************)
\* C35: at most one periodic auto-save timer is active at any time, and none is
\* active after destroy() or while auto-save is disabled.
C35_OnePeriodicTimer ==
    [][/\ Cardinality(Pending(timers', "interval")) <= 1
       /\ IsCall("destroy") => Pending(timers', "interval") = {}
       /\ ~autoSaveConfig'.enabled => Pending(timers', "interval") = {}]_vars

(***************************************************************************)
(* The configuration specification: the scheduler runs while the host      *)
(* edits A1 and changes the auto-save configuration.                       *)
(***************************************************************************)
\* the number of calls the host makes
MaxConfigCalls == 3

\* the partial configurations the host hands to updateAutoSaveConfig
Configs == {[enabled |-> FALSE], [enabled |-> TRUE], [maxRetries |-> DefaultMaxRetries - 1]}

NextConfig ==
    \/ calls < MaxConfigCalls /\ UpdateCell(A1, SaveText)
    \/ \E config \in Configs : calls < MaxConfigCalls /\ UpdateAutoSaveConfig(config)
    \/ Tick
    \/ \E h \in DOMAIN timers : IntervalFire(h)
    \/ \E h \in DOMAIN timers : DebounceFire(h)
    \/ \E h \in DOMAIN timers : RetryFire(h)
    \/ SaveSucceeds
    \/ SaveFails

SpecConfig == InitConflict /\ [][NextConfig]_vars

(***************************************************************************)
(* Claims about the auto-save configuration.                               *)
(***************************************************************************)
\* C36: after updateAutoSaveConfig has set enabled to false, neither the periodic nor
\* the debounce timer invokes the save callback until auto-save is enabled again.
C36_DisabledConfigStaysSilent ==
    [][((IsCall("intervalFire") \/ IsCall("debounce")) /\ ~autoSaveConfig.enabled)
          => ~Invokes]_vars

(***************************************************************************)
(* Claims about the retry counter.                                         *)
(***************************************************************************)
\* C37: in every reachable state AutoSaveState.retryCount is at most maxRetries.
C37_RetryCountBounded ==
    autoSaveState.retryCount <= autoSaveConfig.maxRetries


(***************************************************************************)
(* The sheets specification: a DataManager constructed on a document of    *)
(* two sheets, 'sheet1' and 'sheet2', each holding A1.  The host edits A1  *)
(* of either sheet, hands detectConflicts the content of the backing file  *)
(* and resolves with the local or the remote side.  The backing file       *)
(* differs from the loaded document in one sheet at a time, so a           *)
(* ConflictInfo holds the conflicts of one sheet.                          *)
(***************************************************************************)
\* the number of calls the host makes
MaxSheetCalls == 4

\* the two sheets as loaded: A1 = 2 in 'sheet1', A1 = 3 in 'sheet2'
SheetDoc1 == MapSet(EmptyMap, A1, Literal(<<"2">>))
SheetDoc2 == MapSet(EmptyMap, A1, Literal(<<"3">>))

\* the texts the host types
SheetTexts == {<<"8">>, <<"9">>}

\* the sheets the backing file holds: as loaded, A1 = 7 in 'sheet2', A1 = 5 in 'sheet1'
SheetRemotes == {<<SheetDoc1, SheetDoc2>>,
                 <<SheetDoc1, MapSet(EmptyMap, A1, Literal(<<"7">>))>>,
                 <<MapSet(EmptyMap, A1, Literal(<<"5">>)), SheetDoc2>>}

InitSheets ==
    ConstructedWith(SheetDoc1, NewEngine(SheetDoc2, MaxUndoSteps), FALSE, DefaultMaxRetries)

NextSheets ==
    \/ \E text \in SheetTexts : calls < MaxSheetCalls /\ UpdateCell(A1, text)
    \/ \E text \in SheetTexts : calls < MaxSheetCalls /\ UpdateCellOfSheet2(A1, text)
    \/ \E remotes \in SheetRemotes, fileModifiedTime \in ModifiedTimes :
          calls < MaxSheetCalls
            /\ DetectConflictsOfSheets(remotes[1], remotes[2], fileModifiedTime)
    \/ \E side \in {"local", "remote"} :
          /\ calls < MaxSheetCalls
          /\ hasActiveConflicts(conflict)
          /\ ResolveConflicts(ResolvedCells(conflict.conflictInfo, side))

SpecSheets == InitSheets /\ [][NextSheets]_vars

\* the cells of celldata other than those of keys are what they were in before
OthersKept(before, after, keys) ==
    \A k \in (DOMAIN before \cup DOMAIN after) \ keys :
        getCellAt(after, k) = getCellAt(before, k)

\* C38: in a document of several sheets resolveConflicts applies each resolved value to
\* the cell of the sheet in which that conflict was detected, and leaves the cells of
\* every other sheet unchanged.  Stated for a resolution with the local or the remote
\* side that immediately follows the detection.
C38_ResolvedInItsSheet ==
    [][\A side \in {"local", "remote"} :
          (/\ sheet2 # Null
           /\ hasActiveConflicts(conflict)
           /\ hist # <<>> /\ hist[1].op = "detectConflicts"
           /\ ResolveConflicts(ResolvedCells(conflict.conflictInfo, side)))
            => LET in1 == findConflictedCells(dm.cellStates, lastDetect.remote)
                   in2 == findConflictedCells(sheet2.cellStates, lastDetect.remote2)
                   resolved(c) == IF side = "local" THEN c.localValue ELSE c.remoteValue
               IN  /\ \A c \in in1 : Content(getCellAt(dm'.celldata, c.key))
                                       = Content(resolved(c))
                   /\ \A c \in in2 : Content(getCellAt(sheet2'.celldata, c.key))
                                       = Content(resolved(c))
                   /\ OthersKept(dm.celldata, dm'.celldata, {c.key : c \in in1})
                   /\ OthersKept(sheet2.celldata, sheet2'.celldata, {c.key : c \in in2})]_vars

\* the same for the conflicts detected in the first sheet alone
ResolvedInFirstSheet ==
    [][\A side \in {"local", "remote"} :
          (/\ sheet2 # Null
           /\ hasActiveConflicts(conflict)
           /\ hist # <<>> /\ hist[1].op = "detectConflicts"
           /\ findConflictedCells(sheet2.cellStates, lastDetect.remote2) = {}
           /\ ResolveConflicts(ResolvedCells(conflict.conflictInfo, side)))
            => LET in1 == findConflictedCells(dm.cellStates, lastDetect.remote)
                   resolved(c) == IF side = "local" THEN c.localValue ELSE c.remoteValue
               IN  /\ in1 # {}
                   /\ \A c \in in1 : Content(getCellAt(dm'.celldata, c.key))
                                       = Content(resolved(c))
                   /\ OthersKept(dm.celldata, dm'.celldata, {c.key : c \in in1})
                   /\ sheet2' = sheet2]_vars

\* a conflict detected in the second sheet was resolved
ResolvedOfSecondSheet ==
    /\ sheet2 # Null
    /\ Len(hist) = 2
    /\ hist[1].op = "resolveConflicts" /\ hist[2].op = "detectConflicts"
    /\ lastDetect.result # Null
    /\ lastDetect.remote = SheetDoc1


\* the grid holds at key a cell record that carries the formula text formula
CarriesFormula(celldata, key, formula) ==
    LET cell == getCellAt(celldata, key)
    IN  cell # Null /\ "f" \in DOMAIN cell /\ cell.f = formula

\* C39: after any sequence of updateCell, undo and redo calls a cell key is in the
\* sheet's Formula Index if and only if the grid holds a cell record at that position
\* carrying that same formula text.
C39_FormulaIndexMatchesGrid ==
    /\ \A key \in DOMAIN dm.formulas :
          CarriesFormula(dm.celldata, key, dm.formulas[key].formula)
    /\ \A key \in DOMAIN dm.celldata :
          "f" \in DOMAIN dm.celldata[key]
            => key \in DOMAIN dm.formulas /\ dm.formulas[key].formula = dm.celldata[key].f

\* the key of every cell record that carries a formula is in the Formula Index
FormulaCellsAreIndexed ==
    \A key \in DOMAIN dm.celldata :
        "f" \in DOMAIN dm.celldata[key] => key \in DOMAIN dm.formulas


====
